---- MODULE Spec2Model ----
(***************************************************************************)
(* Model of github.com/EvergenEnergy/TimeSchema, package timestream.        *)
(*                                                                         *)
(* Marshal (pkg/marshal.go) is a pure function of the value handed to it.  *)
(* The specification Spec draws that value in Init and applies Marshal in  *)
(* one step.                                                               *)
(*                                                                         *)
(* Representation                                                          *)
(*  - a Go string VALUE is a sequence of one-character strings, so that    *)
(*    formatting (strconv.FormatInt, fmt "%f") is computed digit by digit; *)
(*  - names (field names, name= options, roles) are TLA+ strings;          *)
(*  - a struct tag is the sequence strings.Split(tag, ",") of its parts;   *)
(*    the part "k=v" is the pair <<k, v>>, a bare word w is <<w>>;         *)
(*  - a string pointer is <<>> for nil and <<x>> for a pointer to x;      *)
(*  - a time.Time is [unix, nsec]; the zero time.Time (January 1, year 1)  *)
(*    lies 62135596800 s before the epoch, which is scaled down to 2 s so  *)
(*    that every epoch value fits the checker's integers.                  *)
(***************************************************************************)
EXTENDS Integers, Sequences, FiniteSets, TLC

VARIABLES input, result, pc

vars == <<input, result, pc>>

----------------------------------------------------------------------------
(* Bounds *)

\* longest struct (number of declared fields) handed to Marshal
MaxFields == 5

\* longest slice handed to Marshal
MaxSlice == 3

----------------------------------------------------------------------------
(* Values *)

\* The four roles of marshal.go:22-27, as first tag parts.
measure == <<"measure">>
timestamp == <<"timestamp">>
dimension == <<"dimension">>
attribute == <<"attribute">>

\* The zero time.Time: IsZero() holds of exactly this instant.
ZeroTime == [unix |-> -2, nsec |-> 0]

\* A field value; only the component of the field's kind is meaningful.
StrV(s) == [s |-> s, i |-> 0, t |-> ZeroTime]
IntV(i) == [s |-> <<>>, i |-> i, t |-> ZeroTime]
TimeV(t) == [s |-> <<>>, i |-> 0, t |-> t]
Opaque == [s |-> <<>>, i |-> 0, t |-> ZeroTime]

\* Kinds of reflect.Kind that the model distinguishes. "time" is a
\* reflect.Struct whose type is time.Time, "struct" any other struct.
IntKinds == {"int", "int8", "int16", "int32", "int64"}
FloatKinds == {"float32", "float64"}
OtherKinds == {"struct", "bool", "uint", "ptr", "slice"}

\* Declared names of the fields of a struct, by position.
FieldNames == <<"F1", "F2", "F3", "F4", "F5", "F6", "F7">>

\* time.Time.Unix, UnixMilli, UnixNano
Unix(t) == t.unix
UnixMilli(t) == t.unix * 1000 + (t.nsec \div 1000000)
UnixNano(t) == t.unix * 1000000000 + t.nsec
IsZero(t) == t = ZeroTime

Digits == <<"0", "1", "2", "3", "4", "5", "6", "7", "8", "9">>

RECURSIVE FormatNat(_)
FormatNat(n) ==
    IF n < 10 THEN <<Digits[n + 1]>>
    ELSE Append(FormatNat(n \div 10), Digits[(n % 10) + 1])

\* strconv.FormatInt(n, 10) and fmt.Sprintf("%d", n)
FormatInt(n) == IF n < 0 THEN <<"-">> \o FormatNat(0 - n) ELSE FormatNat(n)

RECURSIVE PadLeft(_, _)
PadLeft(s, w) == IF Len(s) >= w THEN s ELSE PadLeft(<<"0">> \o s, w)

\* fmt.Sprintf("%f", x) for a float holding exactly m millionths
FormatFloat(m) ==
    LET a == IF m < 0 THEN 0 - m ELSE m
        body == FormatNat(a \div 1000000) \o <<".">> \o PadLeft(FormatNat(a % 1000000), 6)
    IN IF m < 0 THEN <<"-">> \o body ELSE body

----------------------------------------------------------------------------
(* Errors: the message class, its argument, and the wrapping prefix *)

NoErr == [msg |-> "", arg |-> <<>>, wrap |-> ""]
Err(m, a) == [msg |-> m, arg |-> a, wrap |-> ""]
Wrap(w, e) == [e EXCEPT !.wrap = w]

\* A types.Record whose MeasureValueType is the multi-value constant
ZeroRecord_Multi ==
    [Time |-> <<>>, MeasureName |-> <<>>, MeasureValueType |-> "MULTI",
     Dimensions |-> <<>>, MeasureValues |-> <<>>]

\* types.Record{} and types.MeasureValue{}
ZeroRecord ==
    [Time |-> <<>>, MeasureName |-> <<>>, MeasureValueType |-> "",
     Dimensions |-> <<>>, MeasureValues |-> <<>>]
ZeroMeasureValue == [Name |-> <<>>, Value |-> <<>>, Type |-> ""]

----------------------------------------------------------------------------
(* Tag parsing *)

IsNamePart(part) == Len(part) = 2 /\ part[1] = "name"
IsUnitPart(part) == Len(part) = 2 /\ part[1] = "unit"

MaxOf(S) == CHOOSE x \in S : \A y \in S : y <= x
MinOf(S) == CHOOSE x \in S : \A y \in S : x <= y

\* extractTagName that ignores the name= option
extractTagName_DeclaredName(fieldName, tagParts) ==
    [tagName |-> fieldName,
     omitEmpty |-> \E i \in 1..Len(tagParts) : tagParts[i] = <<"omitempty">>]

\* extractTagName: the last name= part names the field, else its declared
\* name; omitempty is set by a part that is exactly "omitempty".
extractTagName(fieldName, tagParts) ==
    LET named == {i \in 1..Len(tagParts) : IsNamePart(tagParts[i])}
    IN [tagName |-> IF named = {} THEN fieldName ELSE tagParts[MaxOf(named)][2],
        omitEmpty |-> \E i \in 1..Len(tagParts) : tagParts[i] = <<"omitempty">>]

\* isZeroValue: only an empty string is "zero"
isZeroValue(f) == f.kind = "string" /\ Len(f.val.s) = 0

----------------------------------------------------------------------------
(* Validation scan *)

\* checkOmitEmpty that accepts omitempty on every kind
checkOmitEmpty_AnyKind(f, name) == NoErr

checkOmitEmpty(f, name) ==
    IF extractTagName(name, f.tag).omitEmpty /\ f.kind # "string"
    THEN Err("omitempty can only be used with string fields", <<name>>)
    ELSE NoErr

checkFieldAccessibility(f, name) ==
    IF ~f.exported THEN Err("field is not accessible", <<name>>) ELSE NoErr

validateTimestampField(f) ==
    IF f.kind # "time" \/ IsZero(f.val.t)
    THEN Err("timestamp field is either not a time.Time or has a zero value", <<>>)
    ELSE NoErr

validateMeasureField(f) ==
    IF f.kind # "string" \/ f.val.s = <<>>
    THEN Err("measureName field is either not a string or has a zero value", <<>>)
    ELSE NoErr

\* The switch compares the WHOLE tag with "timestamp" and "measure".
validateFieldTypeBasedOnTag(f) ==
    IF f.tag = <<timestamp>> THEN validateTimestampField(f)
    ELSE IF f.tag = <<measure>> THEN validateMeasureField(f)
    ELSE NoErr

\* requiredTags[role]++ on a Go map: a missing key counts from zero
Incr(counts, role) ==
    IF role \in DOMAIN counts THEN [counts EXCEPT ![role] = @ + 1]
    ELSE counts @@ (role :> 1)

validateField(f, name, counts) ==
    IF ~f.tagged THEN [err |-> NoErr, counts |-> counts]
    ELSE IF checkOmitEmpty(f, name) # NoErr
         THEN [err |-> checkOmitEmpty(f, name), counts |-> counts]
    ELSE LET c == Incr(counts, f.tag[1])
         IN IF checkFieldAccessibility(f, name) # NoErr
            THEN [err |-> checkFieldAccessibility(f, name), counts |-> c]
            ELSE [err |-> validateFieldTypeBasedOnTag(f), counts |-> c]

RECURSIVE validateTypes(_, _, _)
validateTypes(fields, i, counts) ==
    IF i > Len(fields) THEN [err |-> NoErr, counts |-> counts]
    ELSE LET r == validateField(fields[i], FieldNames[i], counts)
         IN IF r.err # NoErr THEN r ELSE validateTypes(fields, i + 1, r.counts)

\* validateAppearances without the check of repeated roles
validateAppearances_NoRepeat(counts) ==
    LET missing == {Err("missing required tag", r) : r \in {q \in DOMAIN counts : counts[q] = 0}}
    IN IF missing = {} THEN {NoErr} ELSE missing

\* validateAppearances without the exemption of dimension and attribute
validateAppearances_NoExemption(counts) ==
    LET missing == {Err("missing required tag", r) : r \in {q \in DOMAIN counts : counts[q] = 0}}
        repeated == {Err("tag appears more than once", r) :
                        r \in {q \in DOMAIN counts : counts[q] > 1}}
    IN IF missing \cup repeated = {} THEN {NoErr} ELSE missing \cup repeated

\* validateAppearances ranges over a Go map, whose iteration order is
\* unspecified: when several roles are in error, any of them is reported.
\* The result is the set of errors the call can return ({NoErr}: none).
validateAppearances(counts) ==
    LET missing == {Err("missing required tag", r) : r \in {q \in DOMAIN counts : counts[q] = 0}}
        repeated == {Err("tag appears more than once", r) :
                        r \in {q \in DOMAIN counts :
                                 counts[q] > 1 /\ q # dimension /\ q # attribute}}
    IN IF missing \cup repeated = {} THEN {NoErr} ELSE missing \cup repeated

requiredTags == [r \in {measure, timestamp, dimension, attribute} |-> 0]

\* validateRequiredFields: the set of errors it can return
validateRequiredFields(v) ==
    IF v.kind # "struct" THEN {Err("input is not a struct", <<>>)}
    ELSE LET r == validateTypes(v.fields, 1, requiredTags)
         IN IF r.err # NoErr THEN {r.err} ELSE validateAppearances(r.counts)

----------------------------------------------------------------------------
(* Encoding *)

MeasureValueOf(name, value, type) == [Name |-> <<name>>, Value |-> <<value>>, Type |-> type]

\* encodeStruct whose default unit is milliseconds
encodeStruct_DefaultMillis(tagName, tag, f) ==
    IF f.kind = "time" THEN
        LET units == {i \in 1..Len(tag) : IsUnitPart(tag[i])}
            unit == IF units = {} THEN "ms" ELSE tag[MinOf(units)][2]
        IN IF unit = "s"
           THEN [err |-> NoErr, mv |-> MeasureValueOf(tagName, FormatInt(Unix(f.val.t)), "TIMESTAMP")]
           ELSE IF unit = "ms"
           THEN [err |-> NoErr, mv |-> MeasureValueOf(tagName, FormatInt(UnixMilli(f.val.t)), "TIMESTAMP")]
           ELSE IF unit = "ns"
           THEN [err |-> NoErr, mv |-> MeasureValueOf(tagName, FormatInt(UnixNano(f.val.t)), "TIMESTAMP")]
           ELSE [err |-> Err("unsupported unit for time", <<unit>>), mv |-> ZeroMeasureValue]
    ELSE [err |-> Err("unsupported struct type for measureValue", <<>>), mv |-> ZeroMeasureValue]

\* handleMeasureValue, case reflect.Struct: a time.Time in the unit of the
\* first unit= part of the tag (seconds without one), no other struct
encodeStruct(tagName, tag, f) ==
    IF f.kind = "time" THEN
        LET units == {i \in 1..Len(tag) : IsUnitPart(tag[i])}
            unit == IF units = {} THEN "s" ELSE tag[MinOf(units)][2]
        IN IF unit = "s"
           THEN [err |-> NoErr, mv |-> MeasureValueOf(tagName, FormatInt(Unix(f.val.t)), "TIMESTAMP")]
           ELSE IF unit = "ms"
           THEN [err |-> NoErr, mv |-> MeasureValueOf(tagName, FormatInt(UnixMilli(f.val.t)), "TIMESTAMP")]
           ELSE IF unit = "ns"
           THEN [err |-> NoErr, mv |-> MeasureValueOf(tagName, FormatInt(UnixNano(f.val.t)), "TIMESTAMP")]
           ELSE [err |-> Err("unsupported unit for time", <<unit>>), mv |-> ZeroMeasureValue]
    ELSE [err |-> Err("unsupported struct type for measureValue", <<>>), mv |-> ZeroMeasureValue]

\* encodeString without the sentinel: the empty string is emitted as it is
encodeString_NoSentinel(tagName, f) ==
    [err |-> NoErr, mv |-> MeasureValueOf(tagName, f.val.s, "VARCHAR")]

\* handleMeasureValue, case reflect.String: "-" stands for the empty string
encodeString(tagName, f) ==
    [err |-> NoErr,
     mv |-> MeasureValueOf(tagName, IF f.val.s = <<>> THEN <<"-">> ELSE f.val.s, "VARCHAR")]

\* encodeNumber that knows only the kinds int and int64
encodeNumber_IntAndInt64(tagName, f) ==
    IF f.kind \in {"int", "int64"}
    THEN [err |-> NoErr, mv |-> MeasureValueOf(tagName, FormatInt(f.val.i), "BIGINT")]
    ELSE IF f.kind \in FloatKinds
    THEN [err |-> NoErr, mv |-> MeasureValueOf(tagName, FormatFloat(f.val.i), "DOUBLE")]
    ELSE [err |-> Err("unsupported type for measureValue", <<>>), mv |-> ZeroMeasureValue]

\* handleMeasureValue, the remaining cases of the switch on the kind
encodeNumber(tagName, f) ==
    IF f.kind \in IntKinds
    THEN [err |-> NoErr, mv |-> MeasureValueOf(tagName, FormatInt(f.val.i), "BIGINT")]
    ELSE IF f.kind \in FloatKinds
    THEN [err |-> NoErr, mv |-> MeasureValueOf(tagName, FormatFloat(f.val.i), "DOUBLE")]
    ELSE [err |-> Err("unsupported type for measureValue", <<>>), mv |-> ZeroMeasureValue]

\* handleMeasureValue: the value codec of an attribute field
handleMeasureValue(tagName, tag, f, omitEmpty) ==
    IF omitEmpty /\ isZeroValue(f) THEN [err |-> NoErr, mv |-> ZeroMeasureValue]
    ELSE IF f.kind \in {"time", "struct"} THEN encodeStruct(tagName, tag, f)
    ELSE IF f.kind = "string" THEN encodeString(tagName, f)
    ELSE encodeNumber(tagName, f)

\* handleRecord: encodes one annotated field into the record. status is
\* "ok", "error" (an error is returned) or "panic" (an unchecked type
\* assertion .(string) on a value that is not a string).
handleRecord(record, f, name) ==
    LET parsed == extractTagName(name, f.tag)
        tagType == f.tag[1]
        done(r) == [status |-> "ok", err |-> NoErr, record |-> r]
        fail(e) == [status |-> "error", err |-> e, record |-> record]
        crash == [status |-> "panic", err |-> NoErr, record |-> record]
    IN IF tagType = timestamp THEN
           IF f.kind # "time" THEN fail(Err("timestamp field is not a time.Time", <<>>))
           ELSE done([record EXCEPT !.Time = <<FormatInt(UnixMilli(f.val.t))>>])
       ELSE IF tagType = measure THEN
           IF f.kind # "string" THEN crash
           ELSE done([record EXCEPT !.MeasureName = <<f.val.s>>])
       ELSE IF tagType = dimension THEN
           IF f.kind # "string" THEN crash
           ELSE done([record EXCEPT !.Dimensions =
                        Append(@, [Name |-> <<parsed.tagName>>, Value |-> <<f.val.s>>])])
       ELSE IF tagType = attribute THEN
           LET r == handleMeasureValue(parsed.tagName, f.tag, f, parsed.omitEmpty)
           IN IF r.err # NoErr THEN fail(r.err)
              ELSE IF r.mv # ZeroMeasureValue
                   THEN done([record EXCEPT !.MeasureValues = Append(@, r.mv)])
                   ELSE done(record)
       ELSE done(record)

\* The loop of marshalSingle over the fields; handled counts the calls of
\* handleRecord.
RECURSIVE encodeFields(_, _, _, _)
encodeFields(fields, i, record, handled) ==
    IF i > Len(fields)
    THEN [status |-> "ok", record |-> record, err |-> NoErr, handled |-> handled]
    ELSE IF ~fields[i].tagged THEN encodeFields(fields, i + 1, record, handled)
    ELSE LET r == handleRecord(record, fields[i], FieldNames[i])
         IN IF r.status = "ok" THEN encodeFields(fields, i + 1, r.record, handled + 1)
            ELSE [status |-> r.status, record |-> ZeroRecord, err |-> r.err,
                  handled |-> handled + 1]

\* marshalSingle: the set of outcomes of marshalling one value
marshalSingle(v) ==
    { IF e # NoErr
      THEN [status |-> "error", record |-> ZeroRecord,
            err |-> Wrap("invalid struct", e), handled |-> 0]
      ELSE encodeFields(v.fields, 1, ZeroRecord, 0) : e \in validateRequiredFields(v) }

Outcome(status, records, errs, handled) ==
    [status |-> status, records |-> records, errs |-> errs, handled |-> handled]

\* The slice branch of Marshal: every element is marshalled, the errors are
\* joined, and a panic of an element ends the call.
RECURSIVE marshalElements(_, _, _, _, _)
marshalElements(elems, i, records, errs, handled) ==
    IF i > Len(elems)
    THEN {IF errs # <<>> THEN Outcome("error", <<>>, errs, handled)
                         ELSE Outcome("ok", records, <<>>, handled)}
    ELSE UNION { IF o.status = "panic"
                 THEN {Outcome("panic", <<>>, <<>>, handled + o.handled)}
                 ELSE IF o.status = "error"
                 THEN marshalElements(elems, i + 1, records, Append(errs, o.err),
                                      handled + o.handled)
                 ELSE marshalElements(elems, i + 1, Append(records, o.record), errs,
                                      handled + o.handled)
                 : o \in marshalSingle(elems[i]) }

\* Marshal: the set of outcomes of a call
Marshal(v) ==
    IF v.kind = "slice" THEN marshalElements(v.elems, 1, <<>>, <<>>, 0)
    ELSE { IF o.status = "ok" THEN Outcome("ok", <<o.record>>, <<>>, o.handled)
           ELSE IF o.status = "error" THEN Outcome("error", <<>>, <<o.err>>, o.handled)
           ELSE Outcome("panic", <<>>, <<>>, o.handled) : o \in marshalSingle(v) }

----------------------------------------------------------------------------
(* Inputs *)

Field(tag, kind, val) ==
    [tagged |-> TRUE, tag |-> tag, kind |-> kind, val |-> val, exported |-> TRUE]

SomeTime == [unix |-> 1, nsec |-> 5000000]
EpochTime == [unix |-> 0, nsec |-> 0]
LateTime == [unix |-> -1, nsec |-> 999999999]

TsOK == Field(<<timestamp>>, "time", TimeV(SomeTime))
MsOK == Field(<<measure>>, "string", StrV(<<"m">>))
DimOK == Field(<<dimension>>, "string", StrV(<<"d">>))
AttrOK == Field(<<attribute>>, "string", StrV(<<"a">>))

\* The fields of a well-formed record
CoreFields == {TsOK, MsOK, DimOK, AttrOK}

TimestampFields ==
    { Field(<<timestamp>>, "time", TimeV(ZeroTime)),
      Field(<<timestamp>>, "time", TimeV(EpochTime)),
      Field(<<timestamp>>, "string", StrV(<<"t">>)),
      Field(<<timestamp, <<"name", "ts">>>>, "time", TimeV(SomeTime)),
      Field(<<timestamp, <<"name", "ts">>>>, "time", TimeV(ZeroTime)),
      Field(<<timestamp, <<"unit", "ms">>>>, "time", TimeV(ZeroTime)),
      Field(<<timestamp, <<"name", "ts">>>>, "string", StrV(<<"t">>)) }

MeasureFields ==
    { Field(<<measure>>, "string", StrV(<<>>)),
      Field(<<measure>>, "int", IntV(7)),
      Field(<<measure, <<"name", "mn">>>>, "string", StrV(<<"m">>)),
      Field(<<measure, <<"name", "mn">>>>, "string", StrV(<<>>)),
      Field(<<measure, <<"omitempty">>>>, "string", StrV(<<>>)),
      Field(<<measure, <<"name", "mn">>>>, "int", IntV(7)) }

DimensionFields ==
    { Field(<<dimension>>, "string", StrV(<<>>)),
      Field(<<dimension, <<"name", "dn">>>>, "string", StrV(<<"e">>)),
      Field(<<dimension, <<"omitempty">>>>, "string", StrV(<<>>)),
      Field(<<dimension, <<"omitempty">>>>, "int", IntV(7)),
      Field(<<dimension>>, "int", IntV(7)) }

StringAttributes ==
    { Field(<<attribute>>, "string", StrV(<<>>)),
      Field(<<attribute, <<"omitempty">>>>, "string", StrV(<<"b">>)),
      Field(<<attribute, <<"omitempty">>>>, "string", StrV(<<>>)),
      Field(<<attribute, <<"name", "an">>>>, "string", StrV(<<"b">>)),
      Field(<<attribute, <<"name", "an">>, <<"omitempty">>>>, "string", StrV(<<>>)),
      Field(<<attribute, <<"name", "an">>, <<"name", "an2">>>>, "string", StrV(<<"-">>)) }

NumberAttributes ==
    { Field(<<attribute>>, k, IntV(-12)) : k \in IntKinds } \cup
    { Field(<<attribute>>, k, IntV(1500000)) : k \in FloatKinds } \cup
    { Field(<<attribute, <<"name", "an">>>>, "int", IntV(305)),
      Field(<<attribute, <<"omitempty">>>>, "int", IntV(0)),
      Field(<<attribute, <<"omitempty">>>>, "float64", IntV(0)) }

TimeAttributes ==
    { Field(<<attribute>>, "time", TimeV(SomeTime)),
      Field(<<attribute>>, "time", TimeV(ZeroTime)),
      Field(<<attribute, <<"unit", "s">>>>, "time", TimeV(SomeTime)),
      Field(<<attribute, <<"unit", "ms">>>>, "time", TimeV(SomeTime)),
      Field(<<attribute, <<"unit", "ns">>>>, "time", TimeV(LateTime)),
      Field(<<attribute, <<"unit", "bad-unit">>>>, "time", TimeV(SomeTime)),
      Field(<<attribute, <<"unit", "">>>>, "time", TimeV(SomeTime)) }

OtherAttributes ==
    { Field(<<attribute>>, k, Opaque) : k \in OtherKinds }

\* A field without the timestream tag, an unexported annotated field, and
\* fields whose first tag part is none of the four roles.
OtherFields ==
    { [tagged |-> FALSE, tag |-> <<>>, kind |-> "string", val |-> StrV(<<"x">>), exported |-> TRUE],
      [tagged |-> TRUE, tag |-> <<attribute>>, kind |-> "string", val |-> StrV(<<"x">>), exported |-> FALSE],
      Field(<< <<"measureName">> >>, "string", StrV(<<"m">>)),
      Field(<< <<"name", "x">>, <<"dimension">> >>, "string", StrV(<<"m">>)) }

ExtraFields ==
    TimestampFields \cup MeasureFields \cup DimensionFields \cup StringAttributes
    \cup NumberAttributes \cup TimeAttributes \cup OtherAttributes \cup OtherFields

StructOf(fields) == [kind |-> "struct", fields |-> fields, elems |-> <<>>]
Primitive(kind) == [kind |-> kind, fields |-> <<>>, elems |-> <<>>]
SliceOf(elems) == [kind |-> "slice", fields |-> <<>>, elems |-> elems]

\* A struct of well-formed fields c in which field p, if p > 0, is replaced
\* by the field x.
StructWith(c, p, x) == StructOf(IF p = 0 THEN c ELSE [c EXCEPT ![p] = x])

\* Elements of the slices: records of four fields, each field right or wrong
SliceElements ==
    { StructOf(<<t, m, d, a>>) :
        t \in {TsOK, Field(<<timestamp>>, "time", TimeV(ZeroTime))},
        m \in {MsOK, Field(<<measure>>, "string", StrV(<<>>))},
        d \in {DimOK, Field(<<dimension>>, "int", IntV(7))},
        a \in {AttrOK, Field(<<attribute>>, "bool", Opaque)} }
    \cup {Primitive("int")}

\* Values that are neither a struct nor a slice
Primitives == {Primitive("int"), Primitive("ptr"), Primitive("invalid")}

\* Attributes that can share a wire name: by the same name= option, or by a
\* name= option equal to the declared name of the fourth field
RepeatableAttributes ==
    {AttrOK} \cup StringAttributes \cup
    { Field(<<attribute, <<"name", "an">>>>, "int", IntV(305)),
      Field(<<attribute, <<"name", "F4">>>>, "string", StrV(<<"c">>)) }

\* The fields of the attribute role
AttributeFields ==
    {AttrOK} \cup StringAttributes \cup NumberAttributes \cup TimeAttributes
    \cup OtherAttributes

\* The value handed to Marshal: a struct of up to MaxFields fields
\* (well-formed fields in every order and number, at most one of them
\* replaced by a field of ExtraFields), a struct with one field of each
\* role, each of them well formed or not, a struct with two attributes that
\* may share a wire name, a primitive, or a slice of up to MaxSlice elements.
IsInput(v) ==
    \/ \E n \in 0..MaxFields : \E c \in [1..n -> CoreFields] :
         \E p \in 0..n : \E x \in ExtraFields : v = StructWith(c, p, x)
    \/ \E t \in {TsOK} \cup TimestampFields : \E m \in {MsOK} \cup MeasureFields :
         \E d \in {DimOK} \cup DimensionFields : \E a \in AttributeFields :
            v = StructOf(<<t, m, d, a>>)
    \/ \E a \in RepeatableAttributes : \E b \in RepeatableAttributes :
         v = StructOf(<<TsOK, MsOK, DimOK, a, b>>)
    \/ v \in Primitives
    \/ \E n \in 0..MaxSlice : \E e \in [1..n -> SliceElements] : v = SliceOf(e)

----------------------------------------------------------------------------
(* The state machine: a call of Marshal on a drawn input *)

NoResult == Outcome("none", <<>>, <<>>, 0)

Init ==
    /\ IsInput(input)
    /\ result = NoResult
    /\ pc = "call"

\* Marshal(v) for a v that is not a slice
MarshalRecord ==
    /\ pc = "call"
    /\ input.kind # "slice"
    /\ \E o \in Marshal(input) : result' = o
    /\ pc' = "done"
    /\ UNCHANGED input

\* Marshal(v) for a slice v
MarshalSequence ==
    /\ pc = "call"
    /\ input.kind = "slice"
    /\ \E o \in Marshal(input) : result' = o
    /\ pc' = "done"
    /\ UNCHANGED input

Next == MarshalRecord \/ MarshalSequence

Spec == Init /\ [][Next]_vars

TypeOK ==
    /\ pc \in {"call", "done"}
    /\ result.status \in {"none", "ok", "error", "panic"}
    /\ (pc = "call") = (result.status = "none")

----------------------------------------------------------------------------
(* Vocabulary of the properties, stated on the record handed to Marshal *)

HasRole(f, role) == f.tagged /\ f.tag[1] = role
RoleCount(fields, role) == Cardinality({i \in DOMAIN fields : HasRole(fields[i], role)})
HasOption(f, word) == f.tagged /\ \E k \in 2..Len(f.tag) : f.tag[k] = <<word>>
OptionValues(f, key) ==
    {f.tag[k][2] : k \in {j \in 1..Len(f.tag) : Len(f.tag[j]) = 2 /\ f.tag[j][1] = key}}

SignedIntegerKinds == {"int", "int8", "int16", "int32", "int64"}
FloatingPointKinds == {"float32", "float64"}
SupportedAttributeKinds ==
    {"string", "time"} \cup SignedIntegerKinds \cup FloatingPointKinds

\* An annotated field that is well formed for its role
ValidField(f) ==
    f.tagged =>
        /\ f.exported
        /\ (\E k \in 1..Len(f.tag) : f.tag[k] = <<"omitempty">>) => f.kind = "string"
        /\ HasRole(f, timestamp) => (f.kind = "time" /\ f.val.t # ZeroTime)
        /\ HasRole(f, measure) => (f.kind = "string" /\ f.val.s # <<>>)
        /\ HasRole(f, dimension) => f.kind = "string"
        /\ HasRole(f, attribute) =>
              /\ f.kind \in SupportedAttributeKinds
              /\ f.kind = "time" => OptionValues(f, "unit") \subseteq {"s", "ms", "ns"}

\* No role other than dimension and attribute is carried by two fields
NoOtherRoleRepeated(fields) ==
    \A i, j \in DOMAIN fields :
        (i # j /\ fields[i].tagged /\ fields[j].tagged /\ fields[i].tag[1] = fields[j].tag[1])
            => fields[i].tag[1] \in {dimension, attribute}

\* A call of Marshal on a single struct has returned (or panicked)
RecordDone == pc = "done" /\ input.kind = "struct"

----------------------------------------------------------------------------
(* Properties *)

\* C1: Marshal of a single record fails, returning no record, whenever the
\* number of timestamp-role fields is not exactly 1, and likewise whenever
\* the number of measure-role fields is not exactly 1.
C1_RequiredRolesExactlyOnce ==
    (RecordDone /\ (\/ RoleCount(input.fields, timestamp) # 1
                    \/ RoleCount(input.fields, measure) # 1))
        => (result.status = "error" /\ result.records = <<>>)

\* C1 witness: a record with two valid timestamp fields and one measure
\* field was rejected.
C1_Witness ==
    /\ RecordDone
    /\ RoleCount(input.fields, timestamp) = 2
    /\ RoleCount(input.fields, measure) = 1
    /\ RoleCount(input.fields, dimension) = 1
    /\ RoleCount(input.fields, attribute) = 1
    /\ \A i \in DOMAIN input.fields : ValidField(input.fields[i])
    /\ result.status = "error"

\* C2 as stated: every record with exactly one valid timestamp field and
\* exactly one valid measure field (its other fields being well formed)
\* marshals successfully, whatever the number of dimension and attribute
\* fields, zero included.
C2_SucceedsForAnyNumber ==
    (/\ RecordDone
     /\ RoleCount(input.fields, timestamp) = 1
     /\ RoleCount(input.fields, measure) = 1
     /\ \A i \in DOMAIN input.fields : ValidField(input.fields[i])
     /\ NoOtherRoleRepeated(input.fields))
        => result.status = "ok"

\* C2 amended: such a record marshals successfully whatever the number of
\* dimension and attribute fields, provided there is at least one of each;
\* with no dimension field or no attribute field Marshal fails with a
\* missing-required-tag error and returns no record.
C2_SucceedsForOneOrMore ==
    (/\ RecordDone
     /\ RoleCount(input.fields, timestamp) = 1
     /\ RoleCount(input.fields, measure) = 1
     /\ \A i \in DOMAIN input.fields : ValidField(input.fields[i])
     /\ NoOtherRoleRepeated(input.fields))
        => IF RoleCount(input.fields, dimension) >= 1 /\ RoleCount(input.fields, attribute) >= 1
           THEN result.status = "ok" /\ Len(result.records) = 1
           ELSE /\ result.status = "error"
                /\ result.records = <<>>
                /\ result.errs[1].msg = "missing required tag"
                /\ result.errs[1].arg \in {dimension, attribute}

\* C2 witness: a record with two dimension fields and one attribute field
\* was marshalled.
C2_Witness ==
    /\ RecordDone
    /\ RoleCount(input.fields, dimension) = 2
    /\ RoleCount(input.fields, attribute) = 1
    /\ result.status = "ok"

\* A call of Marshal on a slice has returned (or panicked)
SequenceDone == pc = "done" /\ input.kind = "slice"

\* Marshalling element i alone yields a record
ElementSucceeds(i) == \A o \in marshalSingle(input.elems[i]) : o.status = "ok"

\* The elements that do not marshal, in the order of the slice
FailingElements ==
    SelectSeq([i \in 1..Len(input.elems) |-> i], LAMBDA i : ~ElementSucceeds(i))

\* C3: for a sequence of n records Marshal processes every element: if at
\* least one element fails it returns no records and an error joining the
\* error of every failing element; if none fails it returns exactly n
\* records, record i being produced from element i.
C3_SequenceAllOrNothing ==
    SequenceDone =>
        IF FailingElements # <<>>
        THEN /\ result.status = "error"
             /\ result.records = <<>>
             /\ Len(result.errs) = Len(FailingElements)
             /\ \A k \in 1..Len(FailingElements) :
                   result.errs[k] \in
                       {o.err : o \in marshalSingle(input.elems[FailingElements[k]])}
        ELSE /\ result.status = "ok"
             /\ Len(result.records) = Len(input.elems)
             /\ \A i \in 1..Len(input.elems) :
                   result.records[i] \in {o.record : o \in marshalSingle(input.elems[i])}

\* C3, for the slices none of whose elements panics (not the claim: the
\* part of it that the code keeps)
SequenceAllOrNothingWithoutPanic ==
    (SequenceDone /\ \A i \in 1..Len(input.elems) :
                        \A o \in marshalSingle(input.elems[i]) : o.status # "panic")
        => C3_SequenceAllOrNothing

\* C4: Marshal fails for every record whose timestamp-role field is not a
\* time.Time or holds the zero time, whatever options follow the role; no
\* successfully produced record has a time derived from a zero timestamp.
C4_TimestampValidated ==
    /\ (RecordDone /\ \E i \in DOMAIN input.fields :
                         /\ HasRole(input.fields[i], timestamp)
                         /\ (input.fields[i].kind # "time" \/ input.fields[i].val.t = ZeroTime))
          => result.status = "error"
    /\ (RecordDone /\ result.status = "ok")
          => result.records[1].Time # <<FormatInt(UnixMilli(ZeroTime))>>

\* C5: Marshal returns an error (not a record, not a crash) for every
\* record whose measure-role field is not a string or is empty, whatever
\* options follow the role; no produced record has an empty measureName.
C5_MeasureValidated ==
    /\ (RecordDone /\ \E i \in DOMAIN input.fields :
                         /\ HasRole(input.fields[i], measure)
                         /\ (input.fields[i].kind # "string" \/ input.fields[i].val.s = <<>>))
          => result.status = "error"
    /\ (RecordDone /\ result.status = "ok")
          => result.records[1].MeasureName # << <<>> >>

\* The indices of the fields of the given role, in declaration order
FieldsOfRole(fields, role) ==
    SelectSeq([i \in 1..Len(fields) |-> i], LAMBDA i : HasRole(fields[i], role))

\* C6: Marshal returns an error (rather than crashing or emitting a record)
\* when a dimension-role field is not a string; a string dimension is
\* appended verbatim, the empty string included.
C6_DimensionValidated ==
    /\ (RecordDone /\ \E i \in DOMAIN input.fields :
                         HasRole(input.fields[i], dimension) /\ input.fields[i].kind # "string")
          => result.status = "error"
    /\ (RecordDone /\ result.status = "ok")
          => LET dims == FieldsOfRole(input.fields, dimension)
             IN /\ Len(result.records[1].Dimensions) = Len(dims)
                /\ \A k \in 1..Len(dims) :
                      result.records[1].Dimensions[k].Value = <<input.fields[dims[k]].val.s>>

\* An attribute that omitempty drops: an empty string flagged omitempty
Dropped(f) == f.kind = "string" /\ f.val.s = <<>> /\ HasOption(f, "omitempty")

\* The indices of the attribute fields that are not dropped, in order
KeptAttributes(fields) ==
    SelectSeq([i \in 1..Len(fields) |-> i],
              LAMBDA i : HasRole(fields[i], attribute) /\ ~Dropped(fields[i]))

\* C7: a string attribute is emitted verbatim when non-empty, as "-" of
\* type varchar when empty without omitempty, and not at all when empty
\* with omitempty.
C7_StringAttribute ==
    (RecordDone /\ result.status = "ok") =>
        LET kept == KeptAttributes(input.fields)
            mvs == result.records[1].MeasureValues
        IN /\ Len(mvs) = Len(kept)
           /\ \A k \in 1..Len(kept) :
                 input.fields[kept[k]].kind = "string" =>
                    /\ mvs[k].Type = "VARCHAR"
                    /\ mvs[k].Value = <<IF input.fields[kept[k]].val.s = <<>>
                                        THEN <<"-">> ELSE input.fields[kept[k]].val.s>>

\* C7 witness: a record with an empty omitempty string attribute was
\* marshalled, and the attribute is missing from its measure values.
C7_Witness ==
    /\ RecordDone
    /\ result.status = "ok"
    /\ \E i \in DOMAIN input.fields :
          HasRole(input.fields[i], attribute) /\ Dropped(input.fields[i])
    /\ Len(result.records[1].MeasureValues) = RoleCount(input.fields, attribute) - 1

\* C7 witness of the sentinel: an empty string attribute without omitempty
\* was emitted as "-".
C7_WitnessSentinel ==
    /\ RecordDone
    /\ result.status = "ok"
    /\ \E i \in DOMAIN input.fields :
          /\ HasRole(input.fields[i], attribute)
          /\ input.fields[i].kind = "string" /\ input.fields[i].val.s = <<>>
          /\ ~HasOption(input.fields[i], "omitempty")
    /\ \E k \in DOMAIN result.records[1].MeasureValues :
          result.records[1].MeasureValues[k].Value = << <<"-">> >>

\* The field carries omitempty and is not of string kind
OmitEmptyMisused(f) ==
    f.tagged /\ f.kind # "string" /\ \E k \in 1..Len(f.tag) : f.tag[k] = <<"omitempty">>

\* C8: if an annotated field carries omitempty and is not of string kind,
\* Marshal fails during the validation scan, before any field of the
\* record is encoded, even when every other field is valid.
C8_OmitEmptyOnlyOnStrings ==
    (RecordDone /\ \E i \in DOMAIN input.fields : OmitEmptyMisused(input.fields[i]))
        => /\ result.status = "error"
           /\ result.records = <<>>
           /\ result.handled = 0
           /\ result.errs[1].wrap = "invalid struct"

\* C8 witness: a record whose only flaw is omitempty on an attribute that
\* is not a string was rejected by the scan.
C8_Witness ==
    /\ RecordDone
    /\ \E i \in DOMAIN input.fields :
          /\ OmitEmptyMisused(input.fields[i])
          /\ HasRole(input.fields[i], attribute)
          /\ \A j \in DOMAIN input.fields \ {i} : ValidField(input.fields[j])
    /\ RoleCount(input.fields, timestamp) = 1
    /\ RoleCount(input.fields, measure) = 1
    /\ RoleCount(input.fields, dimension) >= 1
    /\ result.errs[1].msg = "omitempty can only be used with string fields"

\* The wire name of field i is that of its name= option or, without one,
\* its declared name
NamedAsDeclared(fields, i, name) ==
    IF OptionValues(fields[i], "name") = {}
    THEN name = <<FieldNames[i]>>
    ELSE \E n \in OptionValues(fields[i], "name") : name = <<n>>

\* C9: on success, dimensions holds exactly one entry per dimension field
\* and measureValues exactly one entry per attribute field that omitempty
\* did not drop, both in declaration order, each named by the field's name=
\* option or else by its declared name; other fields contribute nothing.
C9_EntriesInDeclarationOrder ==
    (RecordDone /\ result.status = "ok") =>
        LET dims == FieldsOfRole(input.fields, dimension)
            kept == KeptAttributes(input.fields)
            rec == result.records[1]
        IN /\ Len(rec.Dimensions) = Len(dims)
           /\ \A k \in 1..Len(dims) :
                 /\ NamedAsDeclared(input.fields, dims[k], rec.Dimensions[k].Name)
                 /\ rec.Dimensions[k].Value = <<input.fields[dims[k]].val.s>>
           /\ Len(rec.MeasureValues) = Len(kept)
           /\ \A k \in 1..Len(kept) :
                 NamedAsDeclared(input.fields, kept[k], rec.MeasureValues[k].Name)

\* C9 witness: a marshalled record with a field without annotation and two
\* measure values, the first named by its declared name and the second by
\* its name= option.
C9_Witness ==
    /\ RecordDone
    /\ result.status = "ok"
    /\ Len(result.records[1].MeasureValues) = 2
    /\ result.records[1].MeasureValues[2].Name = <<"an">>
    /\ result.records[1].MeasureValues[1].Name \in {<<FieldNames[i]>> : i \in 1..MaxFields}

\* C9 witness of the fields without annotation
C9_WitnessUntagged ==
    /\ RecordDone
    /\ result.status = "ok"
    /\ \E i \in DOMAIN input.fields : ~input.fields[i].tagged
    /\ Len(result.records[1].Dimensions) + Len(result.records[1].MeasureValues) + 2
          < Len(input.fields)

\* The number that a decimal numeral denotes
DigitValue(c) == CHOOSE d \in 0..9 : Digits[d + 1] = c

RECURSIVE NumeralValue(_)
NumeralValue(s) ==
    IF s = <<>> THEN 0
    ELSE 10 * NumeralValue(SubSeq(s, 1, Len(s) - 1)) + DigitValue(s[Len(s)])

DecimalValue(s) ==
    IF s # <<>> /\ s[1] = "-" THEN 0 - NumeralValue(Tail(s)) ELSE NumeralValue(s)

\* The type tag of the spec's codec table for a kind
TypeTagOf(kind) ==
    IF kind = "string" THEN "VARCHAR"
    ELSE IF kind \in SignedIntegerKinds THEN "BIGINT"
    ELSE IF kind \in FloatingPointKinds THEN "DOUBLE"
    ELSE "TIMESTAMP"

\* Every annotated field is well formed and the roles occur as often as
\* Marshal requires
WellFormedRecord(fields) ==
    /\ \A i \in DOMAIN fields : ValidField(fields[i])
    /\ NoOtherRoleRepeated(fields)
    /\ RoleCount(fields, timestamp) = 1
    /\ RoleCount(fields, measure) = 1
    /\ RoleCount(fields, dimension) >= 1
    /\ RoleCount(fields, attribute) >= 1

\* Field i is an attribute of a kind outside the codec table
UnsupportedAttribute(fields, i) ==
    /\ HasRole(fields[i], attribute)
    /\ fields[i].kind \notin SupportedAttributeKinds

\* C10: an attribute is encoded by its declared kind: string as varchar, a
\* signed integer of any width as bigint with its base-10 value, a float
\* as double, a time.Time as timestamp; an attribute of any other kind
\* makes Marshal fail with an unsupported-type error.
C10_AttributeByKind ==
    /\ (RecordDone /\ WellFormedRecord(input.fields)) => result.status = "ok"
    /\ (RecordDone /\ result.status = "ok") =>
          LET kept == KeptAttributes(input.fields)
              mvs == result.records[1].MeasureValues
          IN /\ Len(mvs) = Len(kept)
             /\ \A k \in 1..Len(kept) :
                   /\ input.fields[kept[k]].kind \in SupportedAttributeKinds
                   /\ mvs[k].Type = TypeTagOf(input.fields[kept[k]].kind)
                   /\ input.fields[kept[k]].kind \in SignedIntegerKinds =>
                         DecimalValue(mvs[k].Value[1]) = input.fields[kept[k]].val.i
    /\ (RecordDone /\ \E i \in DOMAIN input.fields :
                         /\ UnsupportedAttribute(input.fields, i)
                         /\ ~OmitEmptyMisused(input.fields[i])
                         /\ input.fields[i].exported
                         /\ WellFormedRecord([input.fields EXCEPT ![i] = AttrOK]))
          => /\ result.status = "error"
             /\ result.records = <<>>
             /\ result.errs[1].msg \in {"unsupported type for measureValue",
                                        "unsupported struct type for measureValue"}

\* C10 witness: a record with an attribute of kind int8 was marshalled
\* into a bigint measure value.
C10_Witness ==
    /\ RecordDone
    /\ result.status = "ok"
    /\ \E i \in DOMAIN input.fields :
          HasRole(input.fields[i], attribute) /\ input.fields[i].kind = "int8"
    /\ \E k \in DOMAIN result.records[1].MeasureValues :
          /\ result.records[1].MeasureValues[k].Type = "BIGINT"
          /\ result.records[1].MeasureValues[k].Value = << <<"-", "1", "2">> >>

\* C10 witness of the rejection: an unsigned integer attribute in an
\* otherwise well-formed record made Marshal fail.
C10_WitnessUnsupported ==
    /\ RecordDone
    /\ result.status = "error"
    /\ \E i \in DOMAIN input.fields :
          /\ HasRole(input.fields[i], attribute) /\ input.fields[i].kind = "uint"
          /\ WellFormedRecord([input.fields EXCEPT ![i] = AttrOK])

\* The instant t counted from the epoch in whole seconds, milliseconds or
\* nanoseconds
EpochIn(t, unit) ==
    IF unit = "s" THEN t.unix
    ELSE IF unit = "ms" THEN (t.unix * 1000000000 + t.nsec) \div 1000000
    ELSE t.unix * 1000000000 + t.nsec

TimeUnits == {"s", "ms", "ns"}

\* Field i is a time attribute whose unit option is none of s, ms and ns
BadUnitAttribute(fields, i) ==
    /\ HasRole(fields[i], attribute)
    /\ fields[i].kind = "time"
    /\ OptionValues(fields[i], "unit") \ TimeUnits # {}

C11_WitnessDefault ==
    /\ RecordDone
    /\ result.status = "ok"
    /\ \E k \in DOMAIN result.records[1].MeasureValues :
          LET f == input.fields[KeptAttributes(input.fields)[k]]
          IN /\ f.kind = "time"
             /\ OptionValues(f, "unit") = {}
             /\ UnixMilli(f.val.t) # Unix(f.val.t)
             /\ result.records[1].MeasureValues[k].Value = <<FormatInt(Unix(f.val.t))>>

\* C11 witness of the rejection: a time attribute with an unknown unit in
\* an otherwise well-formed record made Marshal fail.
C11_WitnessBadUnit ==
    /\ RecordDone
    /\ result.status = "error"
    /\ \E i \in DOMAIN input.fields :
          /\ BadUnitAttribute(input.fields, i)
          /\ WellFormedRecord([input.fields EXCEPT ![i] = AttrOK])

\* A call of Marshal has returned one record at least
Returned == pc = "done" /\ result.status = "ok" /\ result.records # <<>>

\* C12: every record returned by a successful Marshal has its
\* MeasureValueType set to the multi-value constant "MULTI".
C12_MeasureValueTypeMulti ==
    Returned => \A k \in DOMAIN result.records :
                    result.records[k].MeasureValueType = "MULTI"

\* C12, amended: every record returned by a successful Marshal has its
\* MeasureValueType unset (the zero value of the field), while the time,
\* the measure name and the dimensions are set.
C12_MeasureValueTypeUnset ==
    Returned => \A k \in DOMAIN result.records :
                    /\ result.records[k].MeasureValueType = ""
                    /\ result.records[k].Time # <<>>
                    /\ result.records[k].MeasureName # <<>>
                    /\ result.records[k].Dimensions # <<>>

\* C12 witness: Marshal of a slice returned two records.
C12_Witness ==
    /\ Returned
    /\ input.kind = "slice"
    /\ Len(result.records) = 2
    /\ result.records[2].MeasureValues # <<>>

\* The wire names field i can resolve to: its name= option, or else its
\* declared name
WireNames(fields, i) ==
    IF OptionValues(fields[i], "name") = {} THEN {FieldNames[i]}
    ELSE OptionValues(fields[i], "name")

\* Two attribute fields of the record resolve to the same wire name
RepeatedAttributeName(fields) ==
    \E i, j \in DOMAIN fields :
        /\ i # j
        /\ HasRole(fields[i], attribute) /\ HasRole(fields[j], attribute)
        /\ WireNames(fields, i) \cap WireNames(fields, j) # {}

\* C14: Marshal fails when two attribute fields of a record resolve to the
\* same wire name, so that a produced record never holds two measure
\* values of the same name.
C14_RepeatedNameRejected ==
    /\ (RecordDone /\ RepeatedAttributeName(input.fields)) => result.status = "error"
    /\ (RecordDone /\ result.status = "ok") =>
          \A k, l \in DOMAIN result.records[1].MeasureValues :
              k # l => result.records[1].MeasureValues[k].Name
                          # result.records[1].MeasureValues[l].Name

----------------------------------------------------------------------------
(* Unmarshal: the parsers of setFieldValue.  A wire value is a sequence of
   characters.  The values of the model hold no exponent, no "inf" or
   "nan", no hexadecimal form and no more than six fraction digits, and
   the years of its time values lie between 1970 and 2037. *)

DigitChars == {"0", "1", "2", "3", "4", "5", "6", "7", "8", "9"}

AllDigits(s) == \A k \in 1..Len(s) : s[k] \in DigitChars

digitOf(c) == CHOOSE d \in 0..9 : Digits[d + 1] = c

\* The value of a sequence of decimal digits
RECURSIVE atoi(_)
atoi(s) ==
    IF s = <<>> THEN 0
    ELSE 10 * atoi(SubSeq(s, 1, Len(s) - 1)) + digitOf(s[Len(s)])

\* strconv.ParseInt that drops the sign
ParseInt_Unsigned(data) ==
    LET signed == data # <<>> /\ data[1] \in {"+", "-"}
        body == IF signed THEN Tail(data) ELSE data
    IN IF body = <<>> \/ ~AllDigits(body) THEN [ok |-> FALSE, n |-> 0]
       ELSE [ok |-> TRUE, n |-> atoi(body)]

\* strconv.ParseInt(data, 10, 64): an optional sign and one digit at least
ParseInt(data) ==
    LET signed == data # <<>> /\ data[1] \in {"+", "-"}
        body == IF signed THEN Tail(data) ELSE data
    IN IF body = <<>> \/ ~AllDigits(body) THEN [ok |-> FALSE, n |-> 0]
       ELSE [ok |-> TRUE,
             n |-> IF data[1] = "-" THEN 0 - atoi(body) ELSE atoi(body)]

\* strconv.ParseFloat(data, 64) on decimal forms, in millionths: an
\* optional sign, digits, an optional point and digits, one digit at least
ParseFloat(data) ==
    LET signed == data # <<>> /\ data[1] \in {"+", "-"}
        body == IF signed THEN Tail(data) ELSE data
        points == {k \in 1..Len(body) : body[k] = "."}
        whole == IF points = {} THEN body ELSE SubSeq(body, 1, MinOf(points) - 1)
        frac == IF points = {} THEN <<>> ELSE SubSeq(body, MinOf(points) + 1, Len(body))
        micro == SubSeq(frac \o <<"0", "0", "0", "0", "0", "0">>, 1, 6)
        m == atoi(whole) * 1000000 + atoi(micro)
    IN IF \/ Cardinality(points) > 1
          \/ ~AllDigits(whole) \/ ~AllDigits(frac)
          \/ whole \o frac = <<>>
       THEN [ok |-> FALSE, m |-> 0]
       ELSE [ok |-> TRUE, m |-> IF signed /\ data[1] = "-" THEN 0 - m ELSE m]

isLeap(y) == y % 4 = 0 /\ (y % 100 # 0 \/ y % 400 = 0)

daysIn(m, y) ==
    IF m = 2 THEN (IF isLeap(y) THEN 29 ELSE 28)
    ELSE IF m \in {4, 6, 9, 11} THEN 30 ELSE 31

\* The days from 1970-01-01 to the day d of month m of year y
daysSinceEpoch(y, m, d) ==
    LET yy == IF m <= 2 THEN y - 1 ELSE y
        era == yy \div 400
        yoe == yy - era * 400
        mp == IF m > 2 THEN m - 3 ELSE m + 9
        doy == (153 * mp + 2) \div 5 + d - 1
        doe == yoe * 365 + yoe \div 4 - yoe \div 100 + doy
    IN era * 146097 + doe - 719468

\* time.Parse("2006-01-02 15:04:05.000000000", data): four digits of year,
\* two of month and day, one or two of hour, two of minute and second,
\* nine of fraction, every element in its range, and nothing after them
timeParse(data) ==
    LET bad == [ok |-> FALSE, t |-> ZeroTime]
        hlen == IF Len(data) >= 13 /\ data[13] \in DigitChars THEN 2 ELSE 1
        rest == SubSeq(data, 12 + hlen, Len(data))
        num(a, b) == atoi(SubSeq(data, a, b))
        rnum(a, b) == atoi(SubSeq(rest, a, b))
    IN IF Len(data) < 12 \/ Len(rest) # 16 THEN bad
       ELSE IF \/ ~AllDigits(SubSeq(data, 1, 4)) \/ data[5] # "-"
               \/ ~AllDigits(SubSeq(data, 6, 7)) \/ data[8] # "-"
               \/ ~AllDigits(SubSeq(data, 9, 10)) \/ data[11] # " "
               \/ ~AllDigits(SubSeq(data, 12, 11 + hlen))
               \/ rest[1] # ":" \/ ~AllDigits(SubSeq(rest, 2, 3))
               \/ rest[4] # ":" \/ ~AllDigits(SubSeq(rest, 5, 6))
               \/ rest[7] \notin {".", ","} \/ ~AllDigits(SubSeq(rest, 8, 16))
       THEN bad
       ELSE LET y == num(1, 4)
                mo == num(6, 7)
                d == num(9, 10)
                h == num(12, 11 + hlen)
                mi == rnum(2, 3)
                s == rnum(5, 6)
                ns == rnum(8, 16)
            IN IF \/ mo < 1 \/ mo > 12 \/ d < 1 \/ d > daysIn(mo, y)
                  \/ h > 23 \/ mi > 59 \/ s > 59
               THEN bad
               ELSE [ok |-> TRUE,
                     t |-> [unix |-> daysSinceEpoch(y, mo, d) * 86400
                                       + h * 3600 + mi * 60 + s,
                            nsec |-> ns]]

----------------------------------------------------------------------------
(* Unmarshal.  A tag is the sequence of its tokens, "=" being a token of
   its own: name=c1 is <<"name", "=", "c1">> and the tag of a field without
   one is <<>>.  A column name is a string.  A datum is <<>> when its
   ScalarValue is nil and <<data>> otherwise.  A Go value is a record of
   its kind, its fields (struct), its zero element and its elements
   (slice); v holds whether it is a pointer, and what it points to. *)

\* The value of a field that holds the zero value of its kind
ZeroValue == [s |-> <<>>, i |-> 0, t |-> ZeroTime]

\* A struct field of a destination: tag, kind, value, exported or not
DestField(tag, kind, val, exported) ==
    [tag |-> tag, kind |-> kind, val |-> val, exported |-> exported]

GoValue(kind, isNil, fields, elem, elems) ==
    [kind |-> kind, nil |-> isNil, fields |-> fields, elem |-> elem, elems |-> elems]

\* The zero Value of reflect, the Elem of a nil pointer
Invalid == GoValue("invalid", FALSE, <<>>, <<>>, <<>>)

Datum(data) == <<data>>
Null == <<>>

\* The zero value of a value's type
RECURSIVE ZeroOf(_)
ZeroOf(x) ==
    IF x.kind = "struct"
    THEN [x EXCEPT !.fields = [i \in DOMAIN x.fields |->
                                  [x.fields[i] EXCEPT !.val = ZeroValue]]]
    ELSE IF x.kind = "slice" THEN [x EXCEPT !.nil = TRUE, !.elems = <<>>]
    ELSE x

\* validateTargetType: a slice of any element type passes
validateTargetType(valElem) ==
    IF valElem.kind \in {"slice", "struct"} THEN NoErr
    ELSE Err("target must be a pointer to a struct or slice of structs", <<valElem.kind>>)

\* validateRowCount that checks slices only
validateRowCount_SliceOnly(valElem, rows) ==
    IF valElem.kind = "slice" /\ Len(valElem.elems) > 0 /\ Len(rows) # Len(valElem.elems)
    THEN Err("queryOutput and target slice length mismatch", <<>>)
    ELSE NoErr

\* validateRowCount that checks structs only
validateRowCount_StructOnly(valElem, rows) ==
    IF valElem.kind = "struct" /\ Len(rows) > 1
    THEN Err("expected a slice for a multiple rows QueryResult", <<>>)
    ELSE NoErr

\* validateRowCount: a slice that is not empty must have as many elements
\* as there are rows, and a struct takes one row at most
validateRowCount(valElem, rows) ==
    IF valElem.kind = "slice" /\ Len(valElem.elems) > 0 /\ Len(rows) # Len(valElem.elems)
    THEN Err("queryOutput and target slice length mismatch", <<>>)
    ELSE IF valElem.kind = "struct" /\ Len(rows) > 1
    THEN Err("expected a slice for a multiple rows QueryResult", <<>>)
    ELSE NoErr

validateRowDataLength(queryOutput) ==
    IF \E r \in DOMAIN queryOutput.Rows :
          Len(queryOutput.Rows[r]) # Len(queryOutput.ColumnInfo)
    THEN Err("mismatched length of row data and column info", <<>>)
    ELSE NoErr

\* validateInput: the first failing check decides
validateInput(queryOutput, v) ==
    IF ~v.ptr THEN Err("target must be a pointer", <<v.elem.kind>>)
    ELSE IF queryOutput.nil THEN Err("queryOutput is nil", <<>>)
    ELSE IF validateTargetType(v.elem) # NoErr THEN validateTargetType(v.elem)
    ELSE IF validateRowCount(v.elem, queryOutput.Rows) # NoErr
    THEN validateRowCount(v.elem, queryOutput.Rows)
    ELSE validateRowDataLength(queryOutput)

\* buildLookupTable: the last column of a name is the one found
buildLookupTable(columnInfo) ==
    [n \in {columnInfo[i] : i \in DOMAIN columnInfo} |->
        MaxOf({i \in DOMAIN columnInfo : columnInfo[i] = n})]

\* lookup[columnName] taking a column that is not there for the first one
lookupColumn_FirstWhenMissing(lookup, columnName) ==
    IF columnName \in DOMAIN lookup
    THEN [pos |-> lookup[columnName], found |-> TRUE]
    ELSE [pos |-> 1, found |-> TRUE]

\* pos, found := lookup[columnName]
lookupColumn(lookup, columnName) ==
    IF columnName \in DOMAIN lookup
    THEN [pos |-> lookup[columnName], found |-> TRUE]
    ELSE [pos |-> 0, found |-> FALSE]

\* strings.Split(tag, "=")
RECURSIVE SplitEq(_)
SplitEq(tag) ==
    LET eqs == {k \in 1..Len(tag) : tag[k] = "="}
    IN IF eqs = {} THEN <<tag>>
       ELSE <<SubSeq(tag, 1, MinOf(eqs) - 1)>>
               \o SplitEq(SubSeq(tag, MinOf(eqs) + 1, Len(tag)))

\* The string a sequence of tokens without "=" stands for
TokenString(part) == IF part = <<>> THEN "" ELSE part[1]

getColumnName(tag) ==
    IF tag = <<"time">> \/ tag = <<"timestamp">> THEN [err |-> NoErr, name |-> tag[1]]
    ELSE LET tagParts == SplitEq(tag)
         IN IF Len(tagParts) # 2 \/ tagParts[1] # <<"name">>
            THEN [err |-> Err("invalid tag format", <<>>), name |-> ""]
            ELSE [err |-> NoErr, name |-> TokenString(tagParts[2])]

\* setFieldValue that decodes the signed integers of every width
setFieldValue_AllIntKinds(field, data) ==
    LET done(val) == [status |-> "ok", err |-> NoErr, field |-> [field EXCEPT !.val = val]]
        fail(e) == [status |-> "error", err |-> e, field |-> field]
        crash == [status |-> "panic", err |-> NoErr, field |-> field]
    IN IF field.kind = "string" THEN
           IF ~field.exported THEN crash ELSE done(StrV(data))
       ELSE IF field.kind \in IntKinds THEN
           IF ~ParseInt(data).ok THEN fail(Err("failed to parse int", <<>>))
           ELSE IF ~field.exported THEN crash
           ELSE done(IntV(ParseInt(data).n))
       ELSE IF field.kind = "float64" THEN
           IF ~ParseFloat(data).ok THEN fail(Err("failed to parse float64", <<>>))
           ELSE IF ~field.exported THEN crash
           ELSE done(IntV(ParseFloat(data).m))
       ELSE IF field.kind \in {"time", "struct"} THEN
           IF ~timeParse(data).ok THEN fail(Err("failed to parse time", <<>>))
           ELSE IF ~field.exported \/ field.kind # "time" THEN crash
           ELSE done(TimeV(timeParse(data).t))
       ELSE fail(Err("setFieldValue: unhandled field type", <<field.kind>>))

\* setFieldValue: status is "ok", "error" or "panic" (a Set on a field that
\* is not exported, or of a time.Time on a struct of another type)
setFieldValue(field, data) ==
    LET done(val) == [status |-> "ok", err |-> NoErr, field |-> [field EXCEPT !.val = val]]
        fail(e) == [status |-> "error", err |-> e, field |-> field]
        crash == [status |-> "panic", err |-> NoErr, field |-> field]
    IN IF field.kind = "string" THEN
           IF ~field.exported THEN crash ELSE done(StrV(data))
       ELSE IF field.kind \in {"int", "int64"} THEN
           IF ~ParseInt(data).ok THEN fail(Err("failed to parse int", <<>>))
           ELSE IF ~field.exported THEN crash
           ELSE done(IntV(ParseInt(data).n))
       ELSE IF field.kind = "float64" THEN
           IF ~ParseFloat(data).ok THEN fail(Err("failed to parse float64", <<>>))
           ELSE IF ~field.exported THEN crash
           ELSE done(IntV(ParseFloat(data).m))
       ELSE IF field.kind \in {"time", "struct"} THEN
           IF ~timeParse(data).ok THEN fail(Err("failed to parse time", <<>>))
           ELSE IF ~field.exported \/ field.kind # "time" THEN crash
           ELSE done(TimeV(timeParse(data).t))
       ELSE fail(Err("setFieldValue: unhandled field type", <<field.kind>>))

\* setStructFieldFromRow: a nil ScalarValue leaves the field as it is
setStructFieldFromRow(row, pos, field) ==
    IF pos < 1 \/ pos > Len(row)
    THEN [status |-> "error", err |-> Err("column position out of range", <<>>),
          field |-> field]
    ELSE IF row[pos] = Null
    THEN [status |-> "ok", err |-> NoErr, field |-> field]
    ELSE setFieldValue(field, row[pos][1])

\* The loop of unmarshalRow from field i on; val is the struct as the
\* fields set so far have left it
RECURSIVE unmarshalFields(_, _, _, _)
unmarshalFields(row, structVal, lookup, i) ==
    IF i > Len(structVal.fields)
    THEN [status |-> "ok", err |-> NoErr, val |-> structVal]
    ELSE LET field == structVal.fields[i]
             col == getColumnName(field.tag)
         IN IF field.tag = <<>> \/ field.tag = <<"-">>
            THEN unmarshalFields(row, structVal, lookup, i + 1)
            ELSE IF col.err # NoErr
            THEN [status |-> "error", err |-> col.err, val |-> structVal]
            ELSE IF ~lookupColumn(lookup, col.name).found
            THEN [status |-> "error",
                  err |-> Err("column not found in Timestream data", <<col.name>>),
                  val |-> structVal]
            ELSE LET r == setStructFieldFromRow(row, lookupColumn(lookup, col.name).pos,
                                                field)
                 IN IF r.status # "ok"
                    THEN [status |-> r.status, err |-> r.err, val |-> structVal]
                    ELSE unmarshalFields(row,
                            [structVal EXCEPT !.fields[i] = r.field], lookup, i + 1)

\* unmarshalRow: NumField panics on a value that is not a struct
unmarshalRow(row, structVal, lookup) ==
    IF structVal.kind # "struct"
    THEN [status |-> "panic", err |-> NoErr, val |-> structVal]
    ELSE unmarshalFields(row, structVal, lookup, 1)

\* The slice branch of Unmarshal from row i on: every row is decoded into
\* a new element, and the destination is set after the last one
RECURSIVE unmarshalRows(_, _, _, _, _)
unmarshalRows(rows, structVal, lookup, i, resizedSlice) ==
    IF i > Len(rows)
    THEN [status |-> "ok", err |-> NoErr,
          val |-> [structVal EXCEPT !.nil = FALSE, !.elems = resizedSlice]]
    ELSE LET r == unmarshalRow(rows[i], ZeroOf(structVal.elem[1]), lookup)
         IN IF r.status # "ok"
            THEN [status |-> r.status, err |-> r.err, val |-> structVal]
            ELSE unmarshalRows(rows, structVal, lookup, i + 1, Append(resizedSlice, r.val))

\* Unmarshal that takes the rows of a slice destination from the last to
\* the first
Unmarshal_RowsReversed(queryOutput, v) ==
    LET e == validateInput(queryOutput, v)
        lookup == buildLookupTable(queryOutput.ColumnInfo)
        reversed == [i \in DOMAIN queryOutput.Rows |->
                        queryOutput.Rows[Len(queryOutput.Rows) + 1 - i]]
        r == IF v.elem.kind = "slice"
             THEN unmarshalRows(reversed, v.elem, lookup, 1, <<>>)
             ELSE IF Len(queryOutput.Rows) = 1
             THEN unmarshalRow(queryOutput.Rows[1], v.elem, lookup)
             ELSE [status |-> "ok", err |-> NoErr, val |-> v.elem]
    IN IF e # NoErr THEN [status |-> "error", err |-> e, v |-> v]
       ELSE [status |-> r.status, err |-> r.err, v |-> [v EXCEPT !.elem = r.val]]

\* Unmarshal(queryOutput, v): the status, the error, and v after the call
Unmarshal(queryOutput, v) ==
    LET e == validateInput(queryOutput, v)
        lookup == buildLookupTable(queryOutput.ColumnInfo)
        r == IF v.elem.kind = "slice"
             THEN unmarshalRows(queryOutput.Rows, v.elem, lookup, 1, <<>>)
             ELSE IF Len(queryOutput.Rows) = 1
             THEN unmarshalRow(queryOutput.Rows[1], v.elem, lookup)
             ELSE [status |-> "ok", err |-> NoErr, val |-> v.elem]
    IN IF e # NoErr THEN [status |-> "error", err |-> e, v |-> v]
       ELSE [status |-> r.status, err |-> r.err, v |-> [v EXCEPT !.elem = r.val]]

----------------------------------------------------------------------------
(* The calls of Unmarshal that the model makes *)

\* The largest number of rows of a query output, and the largest length of
\* a destination slice before the call
MaxRows == 2

\* Wire values: "10", "-7", "abc", "10.5", two timestamps in the layout of
\* Timestream and one in another layout
WInt == <<"1", "0">>
WNegInt == <<"-", "7">>
WText == <<"a", "b", "c">>
WFloat == <<"1", "0", ".", "5">>
WTime ==
    <<"2", "0", "2", "4", "-", "0", "1", "-", "0", "8", " ", "0", "2", ":",
    "3", "2", ":", "0", "4", ".", "0", "0", "0", "0", "0", "0", "0", "0",
    "0">>
WTimeLater ==
    <<"2", "0", "2", "4", "-", "0", "1", "-", "2", "9", " ", "2", ":", "5",
    "5", ":", "0", "0", ".", "5", "0", "0", "0", "0", "0", "0", "0", "0">>
WTimeISO ==
    <<"2", "0", "2", "4", "-", "0", "1", "-", "0", "8", "T", "0", "2", ":",
    "3", "2", ":", "0", "4", "Z">>

DataPool ==
    {Null, Datum(<<>>), Datum(WInt), Datum(WText), Datum(WFloat), Datum(WTime)}

QueryOutput(columnInfo, rows) == [nil |-> FALSE, ColumnInfo |-> columnInfo, Rows |-> rows]
NilQueryOutput == [nil |-> TRUE, ColumnInfo |-> <<>>, Rows |-> <<>>]

\* The columns of most query outputs, and first and later rows for them
TimeAndC1 == <<"time", "c1">>
FirstRows == {<<d, e>> : d \in {Null, Datum(WTime), Datum(WText)}, e \in DataPool}
LaterRows == { <<Datum(WTimeLater), Datum(WNegInt)>>, <<Null, Datum(WTimeISO)>> }

\* Other column lists, and rows of zero to three data
OtherColumns ==
    { <<>>, <<"c1">>, <<"c1", "time">>, <<"c1", "c1">>, <<"time", "c1", "c2">> }
OtherRows ==
    { <<>>, <<Datum(WText)>>, <<Datum(WTime), Datum(WText)>>,
      <<Datum(WText), Datum(WTime)>>, <<Datum(WInt), Datum(WText)>>,
      <<Datum(WTime), Datum(WText), Null>> }

TimeTag == <<"time">>
NameTag(column) == <<"name", "=", column>>

\* The fields of the destination structs, each with the value it holds
\* before the call when the destination is not zeroed
DestFields ==
    { DestField(TimeTag, "time", TimeV(SomeTime), TRUE),
      DestField(TimeTag, "string", StrV(<<"p">>), TRUE),
      DestField(NameTag("c1"), "string", StrV(<<"p">>), TRUE),
      DestField(NameTag("c1"), "int", IntV(5), TRUE),
      DestField(NameTag("c1"), "int64", IntV(5), TRUE),
      DestField(NameTag("c1"), "float64", IntV(2500000), TRUE),
      DestField(NameTag("c1"), "time", TimeV(SomeTime), TRUE),
      DestField(NameTag("c1"), "int32", IntV(5), TRUE),
      DestField(NameTag("c1"), "struct", ZeroValue, TRUE),
      DestField(NameTag("c1"), "string", StrV(<<"p">>), FALSE),
      DestField(NameTag("c2"), "string", StrV(<<"p">>), TRUE),
      DestField(<<"timestamp">>, "int64", IntV(5), TRUE),
      DestField(<<>>, "string", StrV(<<"p">>), TRUE),
      DestField(<<"-">>, "int", IntV(5), TRUE),
      DestField(<<"bad", "=", "tag">>, "string", StrV(<<"p">>), TRUE),
      DestField(<<"name", "=", "a", "=", "b">>, "string", StrV(<<"p">>), TRUE),
      DestField(<<"attribute,name", "=", "c1">>, "string", StrV(<<"p">>), TRUE) }

StructValue(fields) == GoValue("struct", FALSE, fields, <<>>, <<>>)
SliceValue(isNil, elem, elems) == GoValue("slice", isNil, <<>>, <<elem>>, elems)
PrimitiveValue(kind) == GoValue(kind, FALSE, <<>>, <<>>, <<>>)
PointerTo(x) == [ptr |-> TRUE, elem |-> x]
NotPointer(x) == [ptr |-> FALSE, elem |-> x]

\* Destinations for a struct value s: a pointer to it, to its zero value,
\* to a nil slice of its type, and to slices of one to MaxRows copies of it
DestinationsOf(s) ==
    { PointerTo(s), PointerTo(ZeroOf(s)), PointerTo(SliceValue(TRUE, s, <<>>)) }
    \cup { PointerTo(SliceValue(FALSE, s, [i \in 1..n |-> s])) : n \in 1..MaxRows }

\* The struct of the tests: a time and a string column
TimeAndText ==
    StructValue(<<DestField(TimeTag, "time", TimeV(SomeTime), TRUE),
                  DestField(NameTag("c1"), "string", StrV(<<"p">>), TRUE)>>)

\* Values that are no pointer to a struct or to a slice of structs
OtherDestinations ==
    { NotPointer(PrimitiveValue("int")), NotPointer(Invalid),
      NotPointer(TimeAndText), NotPointer(SliceValue(TRUE, TimeAndText, <<>>)),
      PointerTo(PrimitiveValue("string")), PointerTo(Invalid),
      PointerTo(PrimitiveValue("ptr")),
      PointerTo(SliceValue(TRUE, PrimitiveValue("int"), <<>>)),
      PointerTo(SliceValue(FALSE, PrimitiveValue("string"), <<>>)),
      PointerTo(SliceValue(FALSE, PrimitiveValue("int"), <<PrimitiveValue("int")>>)),
      PointerTo(SliceValue(TRUE, PrimitiveValue("ptr"), <<>>)) }

\* The arguments of a call: a struct of up to two fields of DestFields as
\* single destination or element of a slice destination, over TimeAndC1;
\* the struct of the tests over other column lists and rows; and the
\* other destinations and the nil query output.
IsUnmarshalInput(x) ==
    \/ \E n \in 0..2 : \E fs \in [1..n -> DestFields] :
         \E d \in DestinationsOf(StructValue(fs)) :
           \E k \in 0..MaxRows : \E later \in [2..k -> LaterRows] :
             \E first \in FirstRows :
                x = [queryOutput |->
                        QueryOutput(TimeAndC1,
                            [i \in 1..k |-> IF i = 1 THEN first ELSE later[i]]),
                     v |-> d]
    \/ \E c \in OtherColumns : \E d \in DestinationsOf(TimeAndText) :
         \E k \in 0..MaxRows : \E rows \in [1..k -> OtherRows] :
            x = [queryOutput |-> QueryOutput(c, rows), v |-> d]
    \/ \E d \in OtherDestinations \cup DestinationsOf(TimeAndText) :
         \E k \in 0..MaxRows : \E rows \in [1..k -> LaterRows] :
            \E q \in {NilQueryOutput, QueryOutput(TimeAndC1, rows)} :
               x = [queryOutput |-> q, v |-> d]

InitUnmarshal ==
    /\ IsUnmarshalInput(input)
    /\ result = [status |-> "none", err |-> NoErr, v |-> input.v]
    /\ pc = "call"

\* Unmarshal(queryOutput, v)
UnmarshalCall ==
    /\ pc = "call"
    /\ result' = Unmarshal(input.queryOutput, input.v)
    /\ pc' = "done"
    /\ UNCHANGED input

NextUnmarshal == UnmarshalCall

SpecUnmarshal == InitUnmarshal /\ [][NextUnmarshal]_vars

----------------------------------------------------------------------------
(* Properties of Unmarshal *)

\* A call of Unmarshal has returned (or panicked)
UnmarshalDone == pc = "done"

Rows == input.queryOutput.Rows
Columns == {input.queryOutput.ColumnInfo[i] : i \in DOMAIN input.queryOutput.ColumnInfo}

\* v is a pointer to a single record
SingleRecord(v) == v.ptr /\ v.elem.kind = "struct"

\* v is a pointer to a sequence whose elements are records
RecordSequence(v) ==
    v.ptr /\ v.elem.kind = "slice" /\ v.elem.elem[1].kind = "struct"

\* C15: Unmarshal returns a type error, without crashing and without
\* changing anything, whenever the destination is neither a pointer to a
\* record nor a pointer to a sequence of records, for every row count.
C15_TypeErrorForOtherDestinations ==
    (UnmarshalDone /\ ~SingleRecord(input.v) /\ ~RecordSequence(input.v)) =>
        /\ result.status = "error"
        /\ result.v = input.v

\* The part of C15 that holds: a destination that is no pointer, or a
\* pointer to something that is neither a struct nor a slice, is refused
\* with an error and left as it was.
TypeErrorUnlessSlice ==
    (UnmarshalDone /\ ~(input.v.ptr /\ input.v.elem.kind \in {"struct", "slice"})) =>
        /\ result.status = "error"
        /\ result.v = input.v
        /\ ~input.v.ptr => result.err.msg = "target must be a pointer"
        /\ (input.v.ptr /\ ~input.queryOutput.nil) =>
              result.err.msg = "target must be a pointer to a struct or slice of structs"

\* C16: with a single-record destination, Unmarshal fails when the result
\* has more than one row, and succeeds when it has no row, leaving every
\* field of the destination as it was before the call.
C16_SingleRecordRowCount ==
    /\ (UnmarshalDone /\ SingleRecord(input.v) /\ ~input.queryOutput.nil
            /\ Len(Rows) > 1)
          => /\ result.status = "error"
             /\ result.err.msg = "expected a slice for a multiple rows QueryResult"
    /\ (UnmarshalDone /\ SingleRecord(input.v) /\ ~input.queryOutput.nil
            /\ Len(Rows) = 0)
          => /\ result.status = "ok"
             /\ result.v = input.v

\* C16 witness: a call with two rows and a single record has failed.
C16_Witness ==
    /\ UnmarshalDone
    /\ SingleRecord(input.v)
    /\ ~input.queryOutput.nil
    /\ Len(Rows) = 2
    /\ result.status = "error"

\* C16 witness of the empty result: a call without rows has succeeded and
\* the record still holds the values it held, none of them zero.
C16_WitnessNoRows ==
    /\ UnmarshalDone
    /\ SingleRecord(input.v)
    /\ ~input.queryOutput.nil
    /\ Len(Rows) = 0
    /\ result.status = "ok"
    /\ Len(result.v.elem.fields) = 2
    /\ \A i \in DOMAIN result.v.elem.fields :
          /\ result.v.elem.fields[i].val # ZeroValue
          /\ result.v.elem.fields[i].tag \notin {<<>>, <<"-">>}

\* C17: with a destination sequence that is not empty and whose length
\* differs from the number of rows, Unmarshal fails and the sequence keeps
\* its length and its elements.
C17_PresizedSequenceMismatch ==
    (UnmarshalDone /\ input.v.ptr /\ input.v.elem.kind = "slice"
        /\ ~input.queryOutput.nil
        /\ Len(input.v.elem.elems) > 0
        /\ Len(input.v.elem.elems) # Len(Rows))
      => /\ result.status = "error"
         /\ result.err.msg = "queryOutput and target slice length mismatch"
         /\ result.v = input.v

\* C17 witness: a sequence of two records and a result of one row, whose
\* row the records could have taken, have made the call fail.
C17_Witness ==
    /\ UnmarshalDone
    /\ RecordSequence(input.v)
    /\ Len(input.v.elem.elems) = 2
    /\ ~input.queryOutput.nil
    /\ Len(Rows) = 1
    /\ input.queryOutput.ColumnInfo = TimeAndC1
    /\ Rows[1] = <<Datum(WTime), Datum(WText)>>
    /\ input.v.elem.elem[1] = TimeAndText
    /\ result.status = "error"
    /\ result.v.elem.elems = <<TimeAndText, TimeAndText>>

\* C18: whenever Unmarshal returns an error, the destination is exactly as
\* it was before the call, a single record as well as a sequence: no
\* field populated from the failing result remains visible.
C18_ErrorLeavesDestination ==
    (UnmarshalDone /\ result.status = "error") => result.v = input.v

\* The part of C18 that holds: a sequence is as it was after every error,
\* and a single record after every error of the validation of the call.
ErrorLeavesSequence ==
    (UnmarshalDone /\ result.status = "error") =>
        /\ ~SingleRecord(input.v) => result.v = input.v
        /\ result.err.msg \in {"target must be a pointer", "queryOutput is nil",
                               "expected a slice for a multiple rows QueryResult",
                               "mismatched length of row data and column info"}
              => result.v = input.v

\* The fields of the records that v takes
RecordType(v) == IF SingleRecord(v) THEN v.elem.fields ELSE v.elem.elem[1].fields

\* The record that row r was decoded into
Decoded(r) == IF SingleRecord(input.v) THEN result.v.elem ELSE result.v.elem.elems[r]

\* The field is annotated with time, timestamp or name=X
Annotated(f) ==
    \/ f.tag \in {<<"time">>, <<"timestamp">>}
    \/ Len(f.tag) = 3 /\ f.tag[1] = "name" /\ f.tag[2] = "=" /\ f.tag[3] # "="

\* The column an annotated field resolves to
ColumnOf(f) == IF Len(f.tag) = 1 THEN f.tag[1] ELSE f.tag[3]

\* The result has the column, and the row holds null in it
NullIn(row, column) ==
    /\ column \in Columns
    /\ \A p \in DOMAIN input.queryOutput.ColumnInfo :
          input.queryOutput.ColumnInfo[p] = column => row[p] = Null

\* C19: a null value in a row is not an error, and after a successful
\* Unmarshal the annotated field mapped to its column holds the zero value
\* of its kind, also when that field of a single record held another
\* value before the call.
C19_NullGivesZero ==
    (UnmarshalDone /\ result.status = "ok"
        /\ (SingleRecord(input.v) \/ RecordSequence(input.v))) =>
      \A r \in DOMAIN Rows : \A i \in DOMAIN RecordType(input.v) :
          (Annotated(RecordType(input.v)[i])
              /\ NullIn(Rows[r], ColumnOf(RecordType(input.v)[i])))
            => Decoded(r).fields[i].val = ZeroValue

\* The part of C19 that holds: a null value is not an error, it leaves the
\* field of a single record as it was, and the field of an element of a
\* sequence at the zero value.
NullLeavesField ==
    /\ (UnmarshalDone /\ (SingleRecord(input.v) \/ RecordSequence(input.v))
          /\ result.status \in {"error", "panic"}
          /\ result.err.msg \notin {"queryOutput is nil",
                                    "queryOutput and target slice length mismatch",
                                    "expected a slice for a multiple rows QueryResult",
                                    "mismatched length of row data and column info"})
         => \E r \in DOMAIN Rows : \E i \in DOMAIN RecordType(input.v) :
               LET f == RecordType(input.v)[i]
               IN /\ f.tag \notin {<<>>, <<"-">>}
                  /\ ~(Annotated(f) /\ NullIn(Rows[r], ColumnOf(f)))
    /\ (UnmarshalDone /\ result.status = "ok"
          /\ (SingleRecord(input.v) \/ RecordSequence(input.v))) =>
         \A r \in DOMAIN Rows : \A i \in DOMAIN RecordType(input.v) :
            (Annotated(RecordType(input.v)[i])
                /\ NullIn(Rows[r], ColumnOf(RecordType(input.v)[i])))
              => Decoded(r).fields[i].val =
                    IF SingleRecord(input.v) THEN input.v.elem.fields[i].val
                    ELSE ZeroValue

\* An annotated field of the records of v resolves to a column that the
\* result does not have
UnknownColumn(v) ==
    \E i \in DOMAIN RecordType(v) :
        Annotated(RecordType(v)[i]) /\ ColumnOf(RecordType(v)[i]) \notin Columns

Unsettable(f) == ~f.exported \/ f.kind = "struct"

C20_WitnessNoRows ==
    /\ UnmarshalDone
    /\ SingleRecord(input.v)
    /\ UnknownColumn(input.v)
    /\ ~input.queryOutput.nil
    /\ Len(Rows) = 0
    /\ result.status = "ok"

----------------------------------------------------------------------------
(* The round trip: a record is marshalled, and the measure values of the
   wire record are unmarshalled as the row of a query output into a zeroed
   record with one field per attribute of the same kind, annotated with
   the wire name.  An attribute that omitempty dropped comes back as a
   null of its column. *)

\* The indices of the attribute fields
attributesOf(fields) ==
    SelectSeq([i \in 1..Len(fields) |-> i],
              LAMBDA i : fields[i].tagged /\ fields[i].tag[1] = attribute)

\* The wire name of field i
wireNameOf(fields, i) == extractTagName(FieldNames[i], fields[i].tag).tagName

\* The datum of a column: the value of the measure value of that name, or
\* null when there is none
datumOf(measureValues, name) ==
    LET found == {k \in DOMAIN measureValues : measureValues[k].Name = <<name>>}
    IN IF found = {} THEN Null ELSE measureValues[MaxOf(found)].Value

\* One column per attribute, and the one row of the wire record
QueryOutputOf(record, fields) ==
    LET attrs == attributesOf(fields)
        emitted == [k \in DOMAIN record.MeasureValues |-> record.MeasureValues[k].Name[1]]
        dropped == SelectSeq([k \in DOMAIN attrs |-> wireNameOf(fields, attrs[k])],
                             LAMBDA n : \A k \in DOMAIN emitted : emitted[k] # n)
    IN QueryOutput(emitted \o dropped,
                   << [k \in 1..(Len(emitted) + Len(dropped)) |->
                         IF k <= Len(emitted) THEN record.MeasureValues[k].Value
                         ELSE Null] >>)

\* The zeroed record of the attribute fields
DestinationOf(fields) ==
    LET attrs == attributesOf(fields)
    IN PointerTo(StructValue(
          [k \in DOMAIN attrs |->
              DestField(NameTag(wireNameOf(fields, attrs[k])),
                        fields[attrs[k]].kind, ZeroValue, TRUE)]))

InitRoundTrip ==
    /\ IsInput(input)
    /\ input.kind = "struct"
    /\ result = NoResult
    /\ pc = "call"

\* Marshal(v) of the record
RoundTripMarshal ==
    /\ pc = "call"
    /\ \E o \in Marshal(input) : result' = o
    /\ pc' = "marshalled"
    /\ UNCHANGED input

\* Unmarshal(queryOutput, &d) of the wire record into the zeroed record
RoundTripUnmarshal ==
    /\ pc = "marshalled"
    /\ result.status = "ok"
    /\ LET u == Unmarshal(QueryOutputOf(result.records[1], input.fields),
                          DestinationOf(input.fields))
       IN result' = [status |-> u.status, err |-> u.err, v |-> u.v,
                     record |-> result.records[1]]
    /\ pc' = "done"
    /\ UNCHANGED input

NextRoundTrip == RoundTripMarshal \/ RoundTripUnmarshal

SpecRoundTrip == InitRoundTrip /\ [][NextRoundTrip]_vars

\* The round trip of a record has ended
RoundTripDone == pc = "done"

\* The field that the k-th attribute came back into, and the attribute
CameBack(k) == result.v.elem.fields[k]
Original(k) == input.fields[attributesOf(input.fields)[k]]

\* C13: for every record that marshals successfully, unmarshalling the
\* equivalent wire shape into a record of the same field types reproduces
\* the original value of every attribute field, for every string value
\* (the empty string included) and every integer value.
C13_RoundTrip ==
    RoundTripDone =>
        \A k \in DOMAIN attributesOf(input.fields) :
            /\ Original(k).kind = "string" => CameBack(k).val.s = Original(k).val.s
            /\ Original(k).kind \in SignedIntegerKinds =>
                  CameBack(k).val.i = Original(k).val.i

\* No two attributes of the record have the same wire name
DistinctWireNames(fields) ==
    \A k, l \in DOMAIN attributesOf(fields) :
        k # l => wireNameOf(fields, attributesOf(fields)[k])
                    # wireNameOf(fields, attributesOf(fields)[l])

\* C13, amended: for a record that marshals successfully, whose attributes
\* have distinct wire names and are of kind string, int, int64 or float64,
\* the round trip succeeds and reproduces every string that is not empty
\* and every integer; an empty string comes back as "-", or empty when
\* omitempty dropped it; an attribute of kind int8, int16 or int32 makes
\* Unmarshal fail.
C13_RoundTripOfDecodableKinds ==
    /\ (RoundTripDone /\ DistinctWireNames(input.fields)
          /\ \A k \in DOMAIN attributesOf(input.fields) :
                Original(k).kind \in {"string", "int", "int64", "float64"})
         => /\ result.status = "ok"
            /\ \A k \in DOMAIN attributesOf(input.fields) :
                  /\ Original(k).kind = "string" =>
                        CameBack(k).val.s =
                            IF Original(k).val.s = <<>> /\ ~HasOption(Original(k), "omitempty")
                            THEN <<"-">> ELSE Original(k).val.s
                  /\ Original(k).kind \in {"int", "int64"} =>
                        CameBack(k).val.i = Original(k).val.i
    /\ (RoundTripDone /\ \E k \in DOMAIN attributesOf(input.fields) :
                            Original(k).kind \in {"int8", "int16", "int32"})
         => result.status = "error"

\* C13 witness: a negative integer and a string that is not empty have
\* come back as they were.
C13_Witness ==
    /\ RoundTripDone
    /\ result.status = "ok"
    /\ \E k, l \in DOMAIN attributesOf(input.fields) :
          /\ Original(k).kind = "int64" /\ Original(k).val.i = -12
          /\ CameBack(k).val.i = -12
          /\ Original(l).kind = "string" /\ Original(l).val.s # <<>>
          /\ CameBack(l).val.s = Original(l).val.s

\* C13 witness of the sentinel: an empty string has come back as "-".
C13_WitnessSentinel ==
    /\ RoundTripDone
    /\ result.status = "ok"
    /\ \E k \in DOMAIN attributesOf(input.fields) :
          /\ Original(k).kind = "string" /\ Original(k).val.s = <<>>
          /\ CameBack(k).val.s = <<"-">>

\* What a wire value means for a field of a kind: the string itself, the
\* integer or the millionths it denotes, the instant it denotes
MeaningOf(kind, data) ==
    IF kind = "string" THEN StrV(data)
    ELSE IF kind \in {"int", "int64"} THEN IntV(DecimalValue(data))
    ELSE IF kind = "float64" THEN
        IF data = WFloat THEN IntV(10500000) ELSE IntV(DecimalValue(data) * 1000000)
    ELSE IF data = WTime THEN TimeV([unix |-> 1704681124, nsec |-> 0])
    ELSE TimeV([unix |-> 1706496900, nsec |-> 500000000])

\* Field f of a new record holds what the row has in the column of f:
\* nothing when f is not annotated or the value is null
HoldsRow(f, row) ==
    IF f.tag \in {<<>>, <<"-">>} THEN f.val = ZeroValue
    ELSE /\ Annotated(f)
         /\ \E p \in DOMAIN input.queryOutput.ColumnInfo :
               /\ input.queryOutput.ColumnInfo[p] = ColumnOf(f)
               /\ f.val = IF row[p] = Null THEN ZeroValue
                          ELSE MeaningOf(f.kind, row[p][1])

\* C21: with a sequence destination that is empty or as long as the result,
\* and a result whose n rows all decode, Unmarshal leaves the destination
\* with exactly n elements, element i decoded from row i.
C21_ElementsInRowOrder ==
    (UnmarshalDone /\ RecordSequence(input.v) /\ result.status = "ok") =>
        /\ Len(result.v.elem.elems) = Len(Rows)
        /\ \A i \in DOMAIN Rows :
              LET e == result.v.elem.elems[i]
              IN /\ Len(e.fields) = Len(RecordType(input.v))
                 /\ \A j \in DOMAIN e.fields :
                       /\ e.fields[j].tag = RecordType(input.v)[j].tag
                       /\ e.fields[j].kind = RecordType(input.v)[j].kind
                       /\ HoldsRow(e.fields[j], Rows[i])

\* C21 witness: a sequence of records of a time and an integer has taken
\* two rows, the second one into the second element.
C21_Witness ==
    /\ UnmarshalDone
    /\ RecordSequence(input.v)
    /\ result.status = "ok"
    /\ Len(Rows) = 2
    /\ Rows[1] = <<Datum(WTime), Datum(WInt)>>
    /\ Len(result.v.elem.elems) = 2
    /\ Len(RecordType(input.v)) = 2
    /\ result.v.elem.elems[1].fields[1].val.t = [unix |-> 1704681124, nsec |-> 0]
    /\ result.v.elem.elems[1].fields[2].val.i = 10
    /\ result.v.elem.elems[2].fields[1].val.t = [unix |-> 1706496900, nsec |-> 500000000]
    /\ result.v.elem.elems[2].fields[2].val.i = -7

\* C21 witness of a destination that had elements: a sequence of two
\* records has taken two rows.
C21_WitnessPresized ==
    /\ UnmarshalDone
    /\ RecordSequence(input.v)
    /\ result.status = "ok"
    /\ Len(input.v.elem.elems) = 2
    /\ Len(Rows) = 2
    /\ Len(RecordType(input.v)) = 2
    /\ result.v.elem.elems[2].fields[2].val.i = -7

\* The field has no annotation, or the annotation "-"
Skipped(f) == f.tag \in {<<>>, <<"-">>}

\* C29: Unmarshal never changes a destination field that has no
\* annotation or is annotated "-": after a successful call every such
\* field holds the value it had before the call, in a single record and
\* in every element of a sequence that had elements before the call.
C29_SkippedFieldsKept ==
    /\ (UnmarshalDone /\ result.status = "ok" /\ SingleRecord(input.v)) =>
          \A j \in DOMAIN input.v.elem.fields :
              Skipped(input.v.elem.fields[j]) =>
                  result.v.elem.fields[j].val = input.v.elem.fields[j].val
    /\ (UnmarshalDone /\ result.status = "ok" /\ RecordSequence(input.v)
            /\ input.v.elem.elems # <<>>) =>
          /\ Len(result.v.elem.elems) = Len(input.v.elem.elems)
          /\ \A i \in DOMAIN input.v.elem.elems :
                \A j \in DOMAIN input.v.elem.elems[i].fields :
                    Skipped(input.v.elem.elems[i].fields[j]) =>
                        result.v.elem.elems[i].fields[j].val
                            = input.v.elem.elems[i].fields[j].val

\* The part of C29 that holds: the skipped fields of a single record keep
\* their values, also behind an error or a panic, and no error is due to
\* a skipped field.
SkippedFieldsOfSingleRecordKept ==
    (UnmarshalDone /\ SingleRecord(input.v)) =>
        /\ \A j \in DOMAIN input.v.elem.fields :
              Skipped(input.v.elem.fields[j]) =>
                  result.v.elem.fields[j] = input.v.elem.fields[j]
        /\ (~input.queryOutput.nil /\ Len(Rows) <= 1
               /\ (Len(Rows) = 1 =>
                      Len(Rows[1]) = Len(input.queryOutput.ColumnInfo))
               /\ \A j \in DOMAIN input.v.elem.fields : Skipped(input.v.elem.fields[j]))
              => result.status = "ok"

UnhandledKind == "setFieldValue: unhandled field type"

\* The kinds of attribute that Marshal encodes and Unmarshal has no case for
OneWayKinds == {"int8", "int16", "int32", "float32"}

\* C30: the codec supports the same field kinds in both directions: no
\* kind of attribute that marshals successfully makes Unmarshal fail with
\* an unhandled-field-kind error.
C30_SameKindsBothWays ==
    RoundTripDone => result.err.msg # UnhandledKind

\* C30, amended: of the kinds that Marshal accepts for an attribute,
\* Unmarshal populates string, int, int64, float64 and time.Time; an
\* attribute of kind int8, int16, int32 or float32 marshals successfully
\* and makes Unmarshal fail with an unhandled-field-kind error, and no
\* other kind does.
C30_KindsOneWay ==
    /\ (RoundTripDone /\ result.err.msg = UnhandledKind) =>
          /\ result.status = "error"
          /\ result.err.arg[1] \in OneWayKinds
          /\ \E k \in DOMAIN attributesOf(input.fields) :
                Original(k).kind = result.err.arg[1]
    /\ (RoundTripDone /\ \A k \in DOMAIN attributesOf(input.fields) :
                            Original(k).kind \notin OneWayKinds)
          => result.err.msg # UnhandledKind
    /\ (RoundTripDone /\ \E k \in DOMAIN attributesOf(input.fields) :
                            /\ Original(k).kind \in OneWayKinds
                            /\ \A l \in 1..(k - 1) :
                                  Original(l).kind \in {"string", "int", "int64", "float64"})
          => /\ result.status = "error"
             /\ result.err.msg = UnhandledKind

\* C30 witness: a float32 attribute was marshalled and has made Unmarshal
\* fail for its kind.
C30_Witness ==
    /\ RoundTripDone
    /\ result.status = "error"
    /\ result.err = Err(UnhandledKind, <<"float32">>)
    /\ result.record.MeasureValues # <<>>

\* C30 witness of a kind that goes both ways: a float64 attribute has come
\* back with its value.
C30_WitnessBothWays ==
    /\ RoundTripDone
    /\ result.status = "ok"
    /\ \E k \in DOMAIN attributesOf(input.fields) :
          /\ Original(k).kind = "float64"
          /\ Original(k).val.i = 1500000
          /\ CameBack(k).val.i = 1500000

----------------------------------------------------------------------------
(* BuildQuery.  The template, the keys and the string values are sequences
   of characters.  A value of the params map is a record of its dynamic
   type, its string (string, DatabaseName, TableName) and its number: the
   Unix seconds of a time.Time, the nanoseconds of a time.Duration, an int
   or int64, the millionths of a float64.  The range over the map takes
   the keys in any order. *)

Param(type, s, i) == [type |-> type, s |-> s, i |-> i]

\* strings.HasPrefix(s, sub)
HasPrefix(s, sub) == Len(sub) <= Len(s) /\ SubSeq(s, 1, Len(sub)) = sub

\* strings.Contains(s, sub)
Contains(s, sub) ==
    \E i \in 1..(Len(s) + 1) : HasPrefix(SubSeq(s, i, Len(s)), sub)

\* strings.ReplaceAll(s, old, new) for an old that is not empty: the
\* occurrences are taken from the left and do not overlap
RECURSIVE ReplaceAll(_, _, _)
ReplaceAll(s, old, new) ==
    IF s = <<>> THEN <<>>
    ELSE IF HasPrefix(s, old)
    THEN new \o ReplaceAll(SubSeq(s, Len(old) + 1, Len(s)), old, new)
    ELSE <<Head(s)>> \o ReplaceAll(Tail(s), old, new)

\* int64(v.Seconds()): the whole seconds of a duration, towards zero
wholeSeconds(ns) ==
    IF ns >= 0 THEN ns \div 1000000000 ELSE 0 - ((0 - ns) \div 1000000000)

\* The digits of a fraction in millionths without the zeros at its end
RECURSIVE trimZeros(_)
trimZeros(s) ==
    IF s # <<>> /\ s[Len(s)] = "0" THEN trimZeros(SubSeq(s, 1, Len(s) - 1)) ELSE s

\* fmt.Sprintf("%v", v) of a float64 of ordinary magnitude, from millionths
formatFloatV(m) ==
    LET a == IF m < 0 THEN 0 - m ELSE m
        frac == trimZeros(PadLeft(FormatNat(a % 1000000), 6))
    IN (IF m < 0 THEN <<"-">> ELSE <<>>) \o FormatNat(a \div 1000000)
          \o (IF frac = <<>> THEN <<>> ELSE <<".">> \o frac)

FromUnixtime == <<"f", "r", "o", "m", "_", "u", "n", "i", "x", "t", "i", "m", "e", "(">>

\* The type switch of BuildQuery: the replacement of a value, or none
replacementOf(value) ==
    IF value.type = "string"
    THEN [ok |-> TRUE, text |-> <<"'">> \o value.s \o <<"'">>]
    ELSE IF value.type = "time.Time"
    THEN [ok |-> TRUE, text |-> FromUnixtime \o FormatInt(value.i) \o <<")">>]
    ELSE IF value.type = "time.Duration"
    THEN [ok |-> TRUE, text |-> FormatInt(wholeSeconds(value.i)) \o <<"s">>]
    ELSE IF value.type \in {"int", "int64"}
    THEN [ok |-> TRUE, text |-> FormatInt(value.i)]
    ELSE IF value.type = "float64"
    THEN [ok |-> TRUE, text |-> formatFloatV(value.i)]
    ELSE IF value.type \in {"DatabaseName", "TableName"}
    THEN [ok |-> TRUE, text |-> <<"\"">> \o value.s \o <<"\"">>]
    ELSE [ok |-> FALSE, text |-> <<>>]

\* The loop of BuildQuery over the keys in one order, from the i-th on
RECURSIVE buildQueryFrom(_, _, _, _)
buildQueryFrom(template, params, order, i) ==
    IF i > Len(order) THEN [status |-> "ok", query |-> template, err |-> NoErr]
    ELSE LET key == order[i]
             placeholder == <<":">> \o key
             replacement == replacementOf(params[key])
         IN IF ~replacement.ok
            THEN [status |-> "error", query |-> <<>>,
                  err |-> Err("unsupported type for parameter", key)]
            ELSE IF ~Contains(template, placeholder)
            THEN [status |-> "error", query |-> <<>>,
                  err |-> Err("placeholder not found in query template", placeholder)]
            ELSE buildQueryFrom(ReplaceAll(template, placeholder, replacement.text),
                                params, order, i + 1)

\* The orders in which a range over a map with these keys can take them
rangeOrders(keys) ==
    {o \in [1..Cardinality(keys) -> keys] :
        \A i, j \in 1..Cardinality(keys) : i # j => o[i] # o[j]}

\* BuildQuery(template, params): the outcomes that the orders of the range
\* give
BuildQuery(template, params) ==
    {buildQueryFrom(template, params, o, 1) : o \in rangeOrders(DOMAIN params)}

\* The largest number of pieces of a template
MaxPieces == 3

KeyA == <<"a">>
KeyAB == <<"a", "b">>
KeyC == <<"c">>

\* The pieces of the templates: the placeholders of the keys, and text
Pieces == { <<":">> \o KeyA, <<":">> \o KeyAB, <<":">> \o KeyC, <<"x">>, <<"b">> }

RECURSIVE Concat(_)
Concat(pieces) == IF pieces = <<>> THEN <<>> ELSE Head(pieces) \o Concat(Tail(pieces))

\* The key is not in the map
Absent == Param("absent", <<>>, 0)

\* The values of the keys: every type of the type switch, a string that
\* holds the placeholder of another key, and types without a case
ValuesOfA ==
    { Absent, Param("string", <<"v">>, 0), Param("string", <<":", "c">>, 0),
      Param("int", <<>>, 7), Param("struct", <<>>, 0) }
ValuesOfAB ==
    { Absent, Param("string", <<"w">>, 0), Param("TableName", <<"t">>, 0),
      Param("time.Time", <<>>, 1704067200) }
ValuesOfC ==
    { Absent, Param("string", <<"v">>, 0), Param("time.Duration", <<>>, 1500000000),
      Param("time.Duration", <<>>, -1500000000), Param("float64", <<>>, 10500000),
      Param("DatabaseName", <<"d">>, 0), Param("int64", <<>>, -3),
      Param("int32", <<>>, 3) }

\* map[string]interface{} with the keys whose value is not Absent
ParamsOf(a, ab, c) ==
    LET all == (KeyA :> a) @@ (KeyAB :> ab) @@ (KeyC :> c)
    IN [k \in {key \in {KeyA, KeyAB, KeyC} : all[key] # Absent} |-> all[k]]

\* The arguments of a call: a template of up to MaxPieces pieces and a map
\* of up to three keys
IsBuildQueryInput(x) ==
    \E n \in 0..MaxPieces : \E pieces \in [1..n -> Pieces] :
      \E a \in ValuesOfA : \E ab \in ValuesOfAB : \E c \in ValuesOfC :
         x = [template |-> Concat(pieces), params |-> ParamsOf(a, ab, c)]

InitBuildQuery ==
    /\ IsBuildQueryInput(input)
    /\ result = [status |-> "none", query |-> <<>>, err |-> NoErr]
    /\ pc = "call"

\* BuildQuery(template, params)
BuildQueryCall ==
    /\ pc = "call"
    /\ \E o \in BuildQuery(input.template, input.params) : result' = o
    /\ pc' = "done"
    /\ UNCHANGED input

NextBuildQuery == BuildQueryCall

SpecBuildQuery == InitBuildQuery /\ [][NextBuildQuery]_vars

----------------------------------------------------------------------------
(* Properties of BuildQuery *)

BuildQueryDone == pc = "done"

\* The types that BuildQuery has a literal for
SupportedParamTypes ==
    {"string", "time.Time", "time.Duration", "int", "int64", "float64",
     "DatabaseName", "TableName"}

\* The text occurs in the template at position i
OccursAt(template, i, text) ==
    i + Len(text) - 1 <= Len(template) /\ SubSeq(template, i, i + Len(text) - 1) = text

\* The placeholder of key k occurs in the template
HasPlaceholder(template, k) ==
    \E i \in 1..Len(template) : OccursAt(template, i, <<":">> \o k)

\* C22: BuildQuery fails and returns the empty string whenever some key
\* has no placeholder in the template or a value of an unsupported type;
\* no partially substituted string is returned.
C22_FailsWithoutPartialString ==
    /\ (BuildQueryDone /\ \E k \in DOMAIN input.params :
                             \/ ~HasPlaceholder(input.template, k)
                             \/ input.params[k].type \notin SupportedParamTypes)
          => result.status = "error"
    /\ (BuildQueryDone /\ result.status = "error") => result.query = <<>>

\* The part of C22 that holds: a value of an unsupported type makes the
\* call fail in every order, and a failed call returns the empty string.
FailsForUnsupportedType ==
    /\ (BuildQueryDone /\ \E k \in DOMAIN input.params :
                             input.params[k].type \notin SupportedParamTypes)
          => result.status = "error"
    /\ (BuildQueryDone /\ result.status = "error") => result.query = <<>>

\* The literal of a value of a supported type, by the table of the spec
LiteralOf(value) ==
    IF value.type = "string" THEN <<"'">> \o value.s \o <<"'">>
    ELSE IF value.type = "time.Time" THEN FromUnixtime \o FormatInt(value.i) \o <<")">>
    ELSE IF value.type = "time.Duration"
    THEN (IF value.i = 1500000000 THEN <<"1", "s">> ELSE <<"-", "1", "s">>)
    ELSE IF value.type = "float64" THEN <<"1", "0", ".", "5">>
    ELSE IF value.type \in {"int", "int64"} THEN FormatInt(value.i)
    ELSE <<"\"">> \o value.s \o <<"\"">>

\* The keys whose placeholder occurs in the template at position i
KeysAt(template, params, i) ==
    {k \in DOMAIN params : OccursAt(template, i, <<":">> \o k)}

LongestOf(keys) == CHOOSE k \in keys : \A l \in keys : Len(l) <= Len(k)
ShortestOf(keys) == CHOOSE k \in keys : \A l \in keys : Len(k) <= Len(l)

\* The template from position i on with every placeholder replaced at
\* once by the literal of its key, the longest or the shortest key where
\* the placeholders of two keys start at the same place
RECURSIVE Substituted(_, _, _, _)
Substituted(template, params, i, longest) ==
    IF i > Len(template) THEN <<>>
    ELSE IF KeysAt(template, params, i) = {}
    THEN <<template[i]>> \o Substituted(template, params, i + 1, longest)
    ELSE LET k == IF longest THEN LongestOf(KeysAt(template, params, i))
                  ELSE ShortestOf(KeysAt(template, params, i))
         IN LiteralOf(params[k])
               \o Substituted(template, params, i + 1 + Len(k), longest)

\* C23: on success BuildQuery returns the template in which every
\* occurrence of the placeholder of every key is replaced by the literal
\* of the kind of its value, all other text unchanged.
C23_EveryPlaceholderReplaced ==
    (BuildQueryDone /\ result.status = "ok") =>
        \/ result.query = Substituted(input.template, input.params, 1, TRUE)
        \/ result.query = Substituted(input.template, input.params, 1, FALSE)

\* A character of an identifier
IdentChars == {"a", "b", "c", "x"}

\* The token :k occurs in the template: the placeholder of k, not
\* followed by a character of an identifier
HasToken(template, k) ==
    \E i \in 1..Len(template) :
        /\ OccursAt(template, i, <<":">> \o k)
        /\ (i + Len(k) + 1 <= Len(template) => template[i + Len(k) + 1] \notin IdentChars)

\* C24: a key matches only the tokens whose identifier is exactly the key:
\* with values for a and ab, a token :ab is replaced by the literal of ab,
\* never by the literal of a followed by b, and a template with :ab only
\* does not count as holding the placeholder of a.
C24_ExactIdentifier ==
    /\ (BuildQueryDone /\ result.status = "ok"
            /\ {KeyA, KeyAB} \subseteq DOMAIN input.params)
          => result.query = Substituted(input.template, input.params, 1, TRUE)
    /\ (BuildQueryDone /\ KeyA \in DOMAIN input.params
            /\ ~HasToken(input.template, KeyA))
          => result.status = "error"

\* C28: BuildQuery is deterministic: the returned string, or the fact that
\* it fails, is the same for every order in which the keys are taken, also
\* when one key is a prefix of another and when the literal of one key
\* holds the placeholder of another.
C28_SameOutcomeInEveryOrder ==
    BuildQueryDone =>
        \A o \in BuildQuery(input.template, input.params) :
            o.status = result.status /\ o.query = result.query

\* No key is the beginning of another key, and no string value holds a
\* colon
WithoutOverlap(params) ==
    /\ \A k, l \in DOMAIN params : k # l => ~HasPrefix(l, k)
    /\ \A k \in DOMAIN params : \A i \in DOMAIN params[k].s : params[k].s[i] # ":"

\* What holds of C22, C23, C24 and C28: when no key is the beginning of
\* another and no value holds a colon, the outcome is the same in every
\* order, the call fails exactly when a key has no placeholder or an
\* unsupported type, and on success every placeholder is replaced by its
\* literal.
BuildQueryWithoutOverlap ==
    (BuildQueryDone /\ WithoutOverlap(input.params)) =>
        /\ \A o \in BuildQuery(input.template, input.params) :
              o.status = result.status /\ o.query = result.query
        /\ result.status = "error" <=>
              \E k \in DOMAIN input.params :
                  \/ ~HasPlaceholder(input.template, k)
                  \/ input.params[k].type \notin SupportedParamTypes
        /\ result.status = "ok" =>
              result.query = Substituted(input.template, input.params, 1, TRUE)

-----------------------------------------------------------------------------
(* The schema index: Schema, TSSchema, NewTSSchema, the lookups and
   GenerateDummyData *)

\* A Go map without keys
EmptyMap == [k \in {} |-> <<>>]

\* m[k] = v on a Go map
mapAssign(m, k, v) == [x \in DOMAIN m \cup {k} |-> IF x = k THEN v ELSE m[x]]

\* delete(m, k) on a Go map
mapDelete(m, k) == [x \in DOMAIN m \ {k} |-> m[x]]

\* for _, metricName := range metricNames { inverted[metricName] = ... },
\* from position i of the slice on
RECURSIVE invertMetrics(_, _, _, _, _)
invertMetrics(inverted, metricNames, measureName, tableName, i) ==
    IF i > Len(metricNames) THEN inverted
    ELSE invertMetrics(
            mapAssign(inverted, metricNames[i],
                      [measureName |-> measureName, tableName |-> tableName]),
            metricNames, measureName, tableName, i + 1)

\* for measureName, metricNames := range measures, the keys taken in the
\* order mOrder, from position j of the order on
RECURSIVE invertMeasures(_, _, _, _, _)
invertMeasures(inverted, measures, tableName, mOrder, j) ==
    IF j > Len(mOrder) THEN inverted
    ELSE invertMeasures(
            invertMetrics(inverted, measures[mOrder[j]], mOrder[j], tableName, 1),
            measures, tableName, mOrder, j + 1)

\* for tableName, measures := range schema, the tables taken in the order
\* tOrder and the measures of table t in the order mOrders[t]
RECURSIVE invertTables(_, _, _, _, _)
invertTables(inverted, schema, tOrder, mOrders, k) ==
    IF k > Len(tOrder) THEN inverted
    ELSE invertTables(
            invertMeasures(inverted, schema[tOrder[k]], tOrder[k],
                           mOrders[tOrder[k]], 1),
            schema, tOrder, mOrders, k + 1)

\* The orders that the ranges over the measures of every table can take
measureOrders(schema) ==
    {f \in [DOMAIN schema -> UNION {rangeOrders(DOMAIN schema[t]) : t \in DOMAIN schema}] :
        \A t \in DOMAIN schema : f[t] \in rangeOrders(DOMAIN schema[t])}

\* An index whose reverse map holds the table name where the measure name
\* belongs
invertSchema_Swapped(schema) ==
    {[m \in DOMAIN inv |-> [measureName |-> inv[m].tableName,
                            tableName |-> inv[m].measureName]] :
        inv \in {invertTables(EmptyMap, schema, tOrder, mOrders, 1) :
                    tOrder \in rangeOrders(DOMAIN schema),
                    mOrders \in measureOrders(schema)}}

\* invertSchema(schema): the reverse maps that the orders of the ranges
\* give
invertSchema(schema) ==
    {invertTables(EmptyMap, schema, tOrder, mOrders, 1) :
        tOrder \in rangeOrders(DOMAIN schema),
        mOrders \in measureOrders(schema)}

\* TSSchema: the Schema field is the map of the caller itself (a Go map is
\* a reference), kept in input.schema; invertedSchema is the index's own
TSSchema(inverted) == [invertedSchema |-> inverted]

\* NewTSSchema(schema): the indexes it can return
NewTSSchema(schema) == {TSSchema(inverted) : inverted \in invertSchema(schema)}

\* What a lookup returns: the name and the error
Lookup(name, err) == [name |-> name, err |-> err]

\* A lookup that reads the forward schema the index refers to
GetMeasureNameFor_Forward(s, schema, metricName) ==
    IF \E t \in DOMAIN schema : \E m \in DOMAIN schema[t] :
          \E i \in DOMAIN schema[t][m] : schema[t][m][i] = metricName
    THEN Lookup(CHOOSE m \in UNION {DOMAIN schema[t] : t \in DOMAIN schema} :
                    \E t \in DOMAIN schema : m \in DOMAIN schema[t] /\
                        \E i \in DOMAIN schema[t][m] : schema[t][m][i] = metricName,
                NoErr)
    ELSE Lookup("", Err("metric name not found", <<>>))

\* s.GetMeasureNameFor(metricName); schema is the map s.Schema refers to
GetMeasureNameFor(s, schema, metricName) ==
    IF metricName \notin DOMAIN s.invertedSchema
    THEN Lookup("", Err("metric name not found", <<>>))
    ELSE Lookup(s.invertedSchema[metricName].measureName, NoErr)

\* s.GetTableNameFor(metricName); schema is the map s.Schema refers to
GetTableNameFor(s, schema, metricName) ==
    IF metricName \notin DOMAIN s.invertedSchema
    THEN Lookup("", Err("metric name not found", <<>>))
    ELSE Lookup(s.invertedSchema[metricName].tableName, NoErr)

\* The values that the inner loop can append for the metrics of one
\* measure from position i of the slice on: the predefined value, or a draw
\* of rand.Float64()*100, in millionths
RECURSIVE measureValuesOf(_, _, _, _)
measureValuesOf(metricNames, predefinedValues, draws, i) ==
    IF i > Len(metricNames) THEN {<<>>}
    ELSE LET values == IF metricNames[i] \in DOMAIN predefinedValues
                       THEN {predefinedValues[metricNames[i]]}
                       ELSE draws
         IN {<<[Name |-> metricNames[i], Value |-> FormatFloat(v), Type |-> "DOUBLE"]>>
                 \o rest :
               v \in values,
               rest \in measureValuesOf(metricNames, predefinedValues, draws, i + 1)}

\* The records that the loop body can build for one measure
recordsOf(measureName, metricNames, time, predefinedValues, draws) ==
    {[MeasureName |-> measureName, MeasureValueType |-> "MULTI",
      Time |-> FormatInt(time), MeasureValues |-> mv] :
        mv \in measureValuesOf(metricNames, predefinedValues, draws, 1)}

\* The slices of records that the range over the measures of one table can
\* build, the measures taken in the order mOrder from position j on
RECURSIVE recordsInOrder(_, _, _, _, _, _)
recordsInOrder(measures, mOrder, j, time, predefinedValues, draws) ==
    IF j > Len(mOrder) THEN {<<>>}
    ELSE {<<r>> \o rest :
            r \in recordsOf(mOrder[j], measures[mOrder[j]], time,
                            predefinedValues, draws),
            rest \in recordsInOrder(measures, mOrder, j + 1, time,
                                    predefinedValues, draws)}

\* The write inputs that the loop body can build for one table
writeInputOf(db, tableName, measures, time, predefinedValues, draws) ==
    {[DatabaseName |-> db, TableName |-> tableName,
      CommonAttributes |-> [MeasureValueType |-> "MULTI", TimeUnit |-> "SECONDS"],
      Records |-> rs] :
        rs \in UNION {recordsInOrder(measures, mOrder, 1, time,
                                     predefinedValues, draws) :
                        mOrder \in rangeOrders(DOMAIN measures)}}

\* The WriteRecords that the range over the tables can build, the tables
\* taken in the order tOrder from position k on
RECURSIVE writeInputsInOrder(_, _, _, _, _, _, _)
writeInputsInOrder(schema, tOrder, k, db, time, predefinedValues, draws) ==
    IF k > Len(tOrder) THEN {<<>>}
    ELSE {<<w>> \o rest :
            w \in writeInputOf(db, tOrder[k], schema[tOrder[k]], time,
                               predefinedValues, draws),
            rest \in writeInputsInOrder(schema, tOrder, k + 1, db, time,
                                        predefinedValues, draws)}

\* s.GenerateDummyData(db, time, predefinedValues) on the map s.Schema
\* refers to: the WriteRecords it can return; time in Unix milliseconds
GenerateDummyData(schema, db, time, predefinedValues, draws) ==
    UNION {writeInputsInOrder(schema, tOrder, 1, db, time, predefinedValues, draws) :
             tOrder \in rangeOrders(DOMAIN schema)}

-----------------------------------------------------------------------------
(* The schemas handed to NewTSSchema and the calls on the index *)

\* longest slice of metric names under one measure
MaxMetrics == 2

\* most metric names a schema declares in all
MaxDeclared == 2

\* most changes the caller makes to the forward schema
MaxChanges == 1

TableNames == {"table", "table_2"}
MeasureNames == {"measure", "measure_2"}
MetricNames == {"metric", "metric_2"}

\* The metric names looked up: the declared ones and one declared nowhere
LookedUp == MetricNames \cup {"bad_metric"}

\* The number of metric names a schema declares, repetitions counted
RECURSIVE sumOver(_, _)
sumOver(f, keys) ==
    IF keys = {} THEN 0
    ELSE LET k == CHOOSE x \in keys : TRUE IN f[k] + sumOver(f, keys \ {k})

declaredIn(schema) ==
    sumOver([t \in DOMAIN schema |->
                sumOver([m \in DOMAIN schema[t] |-> Len(schema[t][m])],
                        DOMAIN schema[t])],
            DOMAIN schema)

MetricSlices == UNION {[1..n -> MetricNames] : n \in 0..MaxMetrics}
MeasureMaps == UNION {[ms -> MetricSlices] : ms \in SUBSET MeasureNames}

\* Schema[T]: table name -> measure name -> slice of metric names
Schemas ==
    {schema \in UNION {[ts -> MeasureMaps] : ts \in SUBSET TableNames} :
        declaredIn(schema) <= MaxDeclared}

\* The arguments of GenerateDummyData: the database, the time in Unix
\* milliseconds, the predefined values and the draws of rand.Float64()*100,
\* both in millionths; the draws of one call are taken equal
DummyDatabase == <<"m", "y", "-", "d", "b">>
DummyTime == 1500
PredefinedValuesPool == {EmptyMap, [k \in {"metric"} |-> 1000000]}
RandomDraws == {0, 42500000}

\* The last call on the index and what it returned
Call(op, metricName, lookup, data) ==
    [op |-> op, metricName |-> metricName, name |-> lookup.name,
     err |-> lookup.err, data |-> data]

\* The state after s := NewTSSchema(schema): input.schema is the map of
\* the caller, which s.Schema refers to; result.index is s; result.of is
\* the value the schema had when the index was built
InitSchema ==
    /\ \E schema \in Schemas : \E s \in NewTSSchema(schema) :
          /\ input = [schema |-> schema, changes |-> 0]
          /\ result = [index |-> s, of |-> schema,
                       last |-> Call("NewTSSchema", "", Lookup("", NoErr), <<>>)]
    /\ pc = "ready"

\* A new index is built from the forward schema as it is now
NewTSSchemaCall ==
    /\ pc = "ready"
    /\ \E s \in NewTSSchema(input.schema) :
          result' = [index |-> s, of |-> input.schema,
                     last |-> Call("NewTSSchema", "", Lookup("", NoErr), <<>>)]
    /\ UNCHANGED <<input, pc>>

GetMeasureNameForCall ==
    /\ pc = "ready"
    /\ \E metricName \in LookedUp :
          result' = [result EXCEPT !.last =
              Call("GetMeasureNameFor", metricName,
                   GetMeasureNameFor(result.index, input.schema, metricName), <<>>)]
    /\ UNCHANGED <<input, pc>>

GetTableNameForCall ==
    /\ pc = "ready"
    /\ \E metricName \in LookedUp :
          result' = [result EXCEPT !.last =
              Call("GetTableNameFor", metricName,
                   GetTableNameFor(result.index, input.schema, metricName), <<>>)]
    /\ UNCHANGED <<input, pc>>

GenerateDummyDataCall ==
    /\ pc = "ready"
    /\ \E predefinedValues \in PredefinedValuesPool : \E draw \in RandomDraws :
          \E data \in GenerateDummyData(input.schema, DummyDatabase, DummyTime,
                                        predefinedValues, {draw}) :
              result' = [result EXCEPT !.last =
                  Call("GenerateDummyData", "", Lookup("", NoErr), data)]
    /\ UNCHANGED <<input, pc>>

\* The caller changes its map after the index was built: delete(schema, t),
\* or schema[t] = map[string][]T{m: {metricName}} for a table t it had not
ChangeSchema ==
    /\ pc = "ready"
    /\ input.changes < MaxChanges
    /\ \/ \E t \in DOMAIN input.schema :
             input' = [schema |-> mapDelete(input.schema, t),
                       changes |-> input.changes + 1]
       \/ \E t \in TableNames \ DOMAIN input.schema :
             /\ declaredIn(input.schema) < MaxDeclared
             /\ input' = [schema |->
                             mapAssign(input.schema, t,
                                       mapAssign(EmptyMap, "measure", <<"metric_2">>)),
                          changes |-> input.changes + 1]
    /\ result' = [result EXCEPT !.last =
                      Call("ChangeSchema", "", Lookup("", NoErr), <<>>)]
    /\ UNCHANGED pc

NextSchema ==
    \/ NewTSSchemaCall
    \/ GetMeasureNameForCall
    \/ GetTableNameForCall
    \/ GenerateDummyDataCall
    \/ ChangeSchema

SpecSchema == InitSchema /\ [][NextSchema]_vars


-----------------------------------------------------------------------------
(* Properties of the schema index *)

\* The metric name is declared under schema[t][m]
DeclaredUnder(schema, t, m, metricName) ==
    /\ t \in DOMAIN schema
    /\ m \in DOMAIN schema[t]
    /\ \E i \in DOMAIN schema[t][m] : schema[t][m][i] = metricName

\* The (table, measure) pairs under which the metric name is declared
DeclarationsOf(schema, metricName) ==
    {tm \in TableNames \X MeasureNames : DeclaredUnder(schema, tm[1], tm[2], metricName)}

\* C25: after NewTSSchema(schema), for a metric name declared under some
\* (table, measure) both lookups succeed and return a measure M and a table
\* T with the metric declared under schema[T][M]; for a metric name
\* declared nowhere both lookups return an error.
C25_LookupsFollowSchema ==
    \A metricName \in LookedUp :
        LET M == GetMeasureNameFor(result.index, input.schema, metricName)
            T == GetTableNameFor(result.index, input.schema, metricName)
        IN /\ IF DeclarationsOf(result.of, metricName) # {}
              THEN /\ M.err = NoErr
                   /\ T.err = NoErr
                   /\ DeclaredUnder(result.of, T.name, M.name, metricName)
              ELSE M.err # NoErr /\ T.err # NoErr
           /\ (result.last.op = "GetMeasureNameFor" /\ result.last.metricName = metricName)
                 => (result.last.name = M.name /\ result.last.err = M.err)
           /\ (result.last.op = "GetTableNameFor" /\ result.last.metricName = metricName)
                 => (result.last.name = T.name /\ result.last.err = T.err)

\* A metric declared under two tables was looked up and its table returned
C25_Witness ==
    /\ result.last.op = "GetTableNameFor"
    /\ result.last.metricName = "metric"
    /\ Cardinality(DeclarationsOf(result.of, "metric")) = 2
    /\ result.last.name = "table_2"
    /\ result.last.err = NoErr

\* A metric declared nowhere was looked up in an index that has metrics
C25_WitnessNotFound ==
    /\ result.last.op = "GetMeasureNameFor"
    /\ result.last.metricName = "bad_metric"
    /\ DeclarationsOf(result.of, "metric") # {}
    /\ result.last.err # NoErr

\* The order in which the schema literal writes its tables and measures
WrittenTables == <<"table", "table_2">>
WrittenMeasures == <<"measure", "measure_2">>

Position(name, written) == CHOOSE i \in DOMAIN written : written[i] = name

InWrittenOrder(keys, written) ==
    CHOOSE o \in rangeOrders(keys) :
        \A i, j \in DOMAIN o :
            i < j => Position(o[i], written) < Position(o[j], written)

\* The reverse map in which every metric has its last declaration of the
\* schema as written
LaterDeclarations(schema) ==
    invertTables(EmptyMap, schema, InWrittenOrder(DOMAIN schema, WrittenTables),
                 [t \in DOMAIN schema |-> InWrittenOrder(DOMAIN schema[t], WrittenMeasures)],
                 1)

\* C26: when a metric name is declared under more than one (table,
\* measure), the index maps it to the later declaration, and building the
\* index again from the same schema yields the same (table, measure).
C26_LaterDeclarationWins ==
    \A metricName \in MetricNames :
        Cardinality(DeclarationsOf(result.of, metricName)) > 1 =>
            /\ result.index.invertedSchema[metricName]
                  = LaterDeclarations(result.of)[metricName]
            /\ \A s \in NewTSSchema(result.of) :
                  s.invertedSchema[metricName] = result.index.invertedSchema[metricName]

\* What holds of C26: a metric name declared under one (table, measure)
\* only is mapped to it by every index built from the schema, and a metric
\* name declared under more than one is mapped to one of them.
OneDeclarationOneEntry ==
    \A metricName \in MetricNames :
        \A s \in NewTSSchema(result.of) \cup {result.index} :
            /\ DeclarationsOf(result.of, metricName) # {} =>
                  <<s.invertedSchema[metricName].tableName,
                    s.invertedSchema[metricName].measureName>>
                      \in DeclarationsOf(result.of, metricName)
            /\ Cardinality(DeclarationsOf(result.of, metricName)) = 1 =>
                  s.invertedSchema[metricName] = result.index.invertedSchema[metricName]

\* What the reverse map answers for a metric name
AnswerOf(inverted, metricName, field) ==
    IF metricName \in DOMAIN inverted
    THEN Lookup(inverted[metricName][field], NoErr)
    ELSE Lookup("", Err("metric name not found", <<>>))

\* C27: a constructed index is immutable: no GetMeasureNameFor,
\* GetTableNameFor or GenerateDummyData call changes the forward schema or
\* the reverse map, every lookup returns what the reverse map as built
\* answers, and a change of the forward schema is not reflected by the
\* lookups until a new index is built.
C27_IndexImmutable ==
    [][/\ result'.last.op \in {"GetMeasureNameFor", "GetTableNameFor", "GenerateDummyData"}
            => /\ input' = input
               /\ result'.index = result.index
               /\ result'.of = result.of
       /\ result'.last.op = "GetMeasureNameFor"
            => Lookup(result'.last.name, result'.last.err)
                  = AnswerOf(result.index.invertedSchema, result'.last.metricName,
                             "measureName")
       /\ result'.last.op = "GetTableNameFor"
            => Lookup(result'.last.name, result'.last.err)
                  = AnswerOf(result.index.invertedSchema, result'.last.metricName,
                             "tableName")
       /\ result'.last.op = "ChangeSchema"
            => /\ result'.index = result.index
               /\ \A metricName \in LookedUp :
                    /\ GetMeasureNameFor(result'.index, input'.schema, metricName)
                          = GetMeasureNameFor(result.index, input.schema, metricName)
                    /\ GetTableNameFor(result'.index, input'.schema, metricName)
                          = GetTableNameFor(result.index, input.schema, metricName)
      ]_vars

\* After the caller deleted the table of a metric, a lookup of the metric
\* still answered from the index
C27_Witness ==
    /\ input.changes = 1
    /\ result.last.op = "GetMeasureNameFor"
    /\ result.last.err = NoErr
    /\ DeclarationsOf(input.schema, result.last.metricName) = {}
    /\ DeclarationsOf(result.of, result.last.metricName) # {}

====
